---- MODULE Spec2Model ----
(***************************************************************************)
(* Model of the COVID-19 data loader: the pandasutils.DataFrame            *)
(* primitives, the CustomDataset descriptor and the load() pipeline of     *)
(* data/loader.py.                                                         *)
(*                                                                         *)
(* A DataFrame is a record [columns, rows]: the ordered column names and   *)
(* the ordered rows, each row a function from column name to value.        *)
(* Dates are day numbers, countries are strings, every other cell is an    *)
(* integer or NA.                                                          *)
(***************************************************************************)
EXTENDS Integers, Sequences, FiniteSets, TLC

VARIABLES
    pc,                    \* position of the running operation
    arg,                   \* the DataFrame an operation is called on
    res,                   \* subtract_previous: the DataFrame after the call
    confirmed_csv,         \* the remote sources, as pu.from_csv reads them
    deaths_csv,
    recovered_csv,
    vaccinations_csv,
    populations_csv,
    plain_csv,
    variants_csv,
    testing_csv,
    output_file,           \* the file at the output path (None: no file)
    ADDITIONAL_PROCESSORS, \* loader.ADDITIONAL_PROCESSORS
    ADDITIONAL_DATASETS,   \* loader.ADDITIONAL_DATASETS
    final_df,              \* _load_data: final_df
    merged,                \* _do_merges: df, then _load_data: merged
    loop,                  \* position of the running for loop
    returned,              \* what load() returned (None: nothing yet)
    failure,               \* where a fetch or a parse failed ("none": nowhere)
    custom,                \* one CustomDataset object used on its own
    call,                  \* its last call: operation, arguments and outcome
    n_calls,               \* calls of read() and merge() made on it
    n_fetch,               \* times pu.from_csv gave it the source
    n_pre,                 \* times its pre-processor was applied
    custom_datasets,       \* datasets.custom_datasets: the registered producers
    instances,             \* the CustomDataset objects the producers have made
    events,                \* what the runs of datasets.merge did, in order
    run                    \* runs of datasets.merge started

subVars == <<arg, res>>
srcVars == <<confirmed_csv, deaths_csv, recovered_csv, vaccinations_csv,
             populations_csv, plain_csv, variants_csv, testing_csv>>
loadVars == <<output_file, ADDITIONAL_PROCESSORS, ADDITIONAL_DATASETS, final_df,
              merged, loop, returned, failure>>
dsVars == <<custom, call, n_calls, n_fetch, n_pre>>
regVars == <<custom_datasets, instances, events, run>>

vars == <<pc, subVars, srcVars, loadVars, dsVars, regVars>>

----------------------------------------------------------------------------
(* Bounds of the model *)

MaxRows == 4     \* rows of a table handed to a table primitive
MaxVal == 2      \* largest cumulative counter in a source cell
MaxLeft == 2     \* rows of a table handed to, or read by, one CustomDataset
MaxCalls == 3    \* calls made on one CustomDataset object

----------------------------------------------------------------------------
(* Field names, data/fields.py *)

COUNTRY_REGION == "Country/Region"
CONFIRMED == "Confirmed"
DEATHS == "Deaths"
RECOVERED == "Recovered"
DATE_RECORDED == "DateRecorded"
NEW_CASES == "NewCases"
NEW_DEATHS == "NewDeaths"
TOTAL_VACCINATIONS == "Doses"
DAILY_VACCINATIONS == "daily_vaccinations"
FULLY_VACCINATED == "people_fully_vaccinated"
TOTAL_BOOSTERS == "total_boosters"
BOOSTERS_PER_HUNDRED == "total_boosters_per_hundred"
PARTIALLY_VACCINATED == "people_partially_vaccinated"
POPULATION == "Population"
UNVACCINATED == "Unvaccinated"
PERCENTAGE_VACCINATED == "PercentageVaccinated"
TOTAL_TESTS == "Tests"
DAILY_TESTS == "DailyTests"
POSITIVE_RATE == "PositiveRate"
VARIANT == "variant"
NUMBER_DETECTIONS_VARIANT == "number_detections_variant"
PERCENT_VARIANT == "percent_variant"
CASES_PER_THOUSAND == "CasesPerThousand"
DEATHS_PER_THOUSAND == "DeathsPerThousand"

VACCINE_FIELDS ==
    <<COUNTRY_REGION, DATE_RECORDED, TOTAL_VACCINATIONS, FULLY_VACCINATED,
      TOTAL_BOOSTERS, PARTIALLY_VACCINATED, BOOSTERS_PER_HUNDRED>>

\* data/loader.py: the remote sources
GITHUB_URL == "csse_covid_19_time_series/"
VACCINATIONS_URL == "time_series_covid19_vaccine_global.csv"
POPULATIONS_URL == "WPP2019_TotalPopulationBySex.csv"

----------------------------------------------------------------------------
(* Cells *)

\* pd.NA / NaN: the missing-value marker of a numeric cell
NA == -1000000

SubFillZero(a, b) == (IF a = NA THEN 0 ELSE a) - (IF b = NA THEN 0 ELSE b)

\* Series - Series: a missing operand gives a missing result
Sub(a, b) == IF a = NA \/ b = NA THEN NA ELSE a - b

ClipNone(x) == x

\* Series.clip(lower=0): NA stays NA
Clip(x) == IF x = NA THEN NA ELSE IF x < 0 THEN 0 ELSE x

----------------------------------------------------------------------------
(* DataFrame helpers *)

DF(columns, rows) == [columns |-> columns, rows |-> rows]

Range(s) == {s[i] : i \in 1..Len(s)}

RECURSIVE SortedSeq(_)
\* the integers of S in increasing order
SortedSeq(S) ==
    IF S = {} THEN <<>>
    ELSE LET m == CHOOSE x \in S : \A y \in S : x <= y
         IN <<m>> \o SortedSeq(S \ {m})

\* df[c] = v on one row (adds the column to the row when it is new)
SetCol(row, c, v) == [x \in (DOMAIN row) \cup {c} |-> IF x = c THEN v ELSE row[x]]

\* the column index after df[c] = ...: a new column is appended last
WithColumn(columns, c) == IF c \in Range(columns) THEN columns ELSE Append(columns, c)

\* every sequence over S of length 0..n
SeqUpTo(S, n) == UNION {[1..k -> S] : k \in 0..n}

----------------------------------------------------------------------------
(* Ordering of cells, rows and keys *)

\* the country names of the model, in string order
Countries == <<"Ireland", "Republic of Ireland", "US", "United States">>

\* the sort key of a cell of column c: country names order as Countries
\* lists them, numbers and dates as themselves
Ord(c, v) == IF c = COUNTRY_REGION
             THEN CHOOSE k \in 1..Len(Countries) : Countries[k] = v
             ELSE v

RECURSIVE KeyLess(_, _, _)
\* row a sorts before row b on the key columns, compared left to right
KeyLess(a, b, keys) ==
    IF keys = <<>> THEN FALSE
    ELSE LET x == Ord(Head(keys), a[Head(keys)])
             y == Ord(Head(keys), b[Head(keys)])
         IN IF x # y THEN x < y ELSE KeyLess(a, b, Tail(keys))

KeyEq(a, b, keys) == \A k \in 1..Len(keys) : a[keys[k]] = b[keys[k]]

\* a key cell is missing (country names are never missing)
KeyNA(row, keys) ==
    \E k \in 1..Len(keys) : keys[k] # COUNTRY_REGION /\ row[keys[k]] = NA

RECURSIVE OrderBy(_, _, _)
\* the indices S of rows in key order, equal keys in index order (stable)
OrderBy(rows, S, keys) ==
    IF S = {} THEN <<>>
    ELSE LET m == CHOOSE i \in S : \A j \in S \ {i} :
                     \/ KeyLess(rows[i], rows[j], keys)
                     \/ (~KeyLess(rows[j], rows[i], keys) /\ i < j)
         IN <<m>> \o OrderBy(rows, S \ {m}, keys)

\* the rows picked by a sequence of indices
Take(rows, idx) == [k \in 1..Len(idx) |-> rows[idx[k]]]

\* df[mask]: the rows of S, in row order
Filter(rows, S) == Take(rows, SortedSeq(S))

RECURSIVE Flatten(_)
Flatten(ss) == IF ss = <<>> THEN <<>> ELSE Head(ss) \o Flatten(Tail(ss))

\* the columns of cols that are not in drop, in order
Without(cols, drop) == SelectSeq(cols, LAMBDA c : c \notin Range(drop))

----------------------------------------------------------------------------
(* pandas: sort_values, drop_duplicates, groupby().sum(), merge *)

sort_values_skip(df, by) == df

\* df.sort_values(by, ignore_index=True)
sort_values(df, by) ==
    DF(df.columns, Take(df.rows, OrderBy(df.rows, 1..Len(df.rows), <<by>>)))

drop_duplicates_first(df, subset) ==
    DF(df.columns,
       Filter(df.rows, {i \in 1..Len(df.rows) :
                          \A j \in 1..(i - 1) :
                              ~KeyEq(df.rows[i], df.rows[j], subset)}))

\* df.drop_duplicates(subset=subset, keep='last')
drop_duplicates_last(df, subset) ==
    DF(df.columns,
       Filter(df.rows, {i \in 1..Len(df.rows) :
                          \A j \in (i + 1)..Len(df.rows) :
                              ~KeyEq(df.rows[i], df.rows[j], subset)}))

RECURSIVE SumSkipNA(_)
\* Series.sum() with skipna and min_count=0: NA cells count as nothing and a
\* group with nothing but NA sums to 0
SumSkipNA(vs) ==
    IF vs = <<>> THEN 0
    ELSE (IF Head(vs) = NA THEN 0 ELSE Head(vs)) + SumSkipNA(Tail(vs))

\* one pd.merge output row: the left row (NA when absent) and the right row
\* (NA when absent) under the output column names
MergedRow(l, r, lcols, rcols, on, lname, rname, hasL, hasR) ==
    [c \in Range(on) \cup {lname[x] : x \in Range(Without(lcols, on))}
                      \cup {rname[x] : x \in Range(Without(rcols, on))} |->
        IF c \in Range(on) THEN (IF hasL THEN l[c] ELSE r[c])
        ELSE IF \E x \in Range(Without(lcols, on)) : lname[x] = c
             THEN (IF hasL
                   THEN l[CHOOSE x \in Range(Without(lcols, on)) : lname[x] = c]
                   ELSE NA)
             ELSE (IF hasR
                   THEN r[CHOOSE x \in Range(Without(rcols, on)) : rname[x] = c]
                   ELSE NA)]

\* pd.merge(left, right, on=on, how=how) for how in {'left', 'outer'}, with
\* sort=False as in pandas 1.x.
\* A left row pairs with every right row of the same key, in right order; a
\* left row without a match is kept with NA in the right columns.  'left'
\* keeps the order of the left rows.  'outer' also keeps the right rows
\* without a match and has the rows key by key, the keys in the order of
\* their first row in left and then in right, the rows of one key in left
\* order.  A non-key column on both sides gets the suffixes _x and _y.
pd_merge(left, right, on, how) ==
    LET lcols == left.columns
        rcols == right.columns
        both == Range(Without(lcols, on)) \cap Range(Without(rcols, on))
        lname == [c \in Range(lcols) |-> IF c \in both THEN c \o "_x" ELSE c]
        rname == [c \in Range(rcols) |-> IF c \in both THEN c \o "_y" ELSE c]
        columns == [k \in 1..Len(lcols) |-> lname[lcols[k]]]
                   \o [k \in 1..Len(Without(rcols, on)) |->
                         rname[Without(rcols, on)[k]]]
        L == left.rows
        R == right.rows
        matches(i) == SortedSeq({j \in 1..Len(R) : KeyEq(L[i], R[j], on)})
        expand(i) == IF matches(i) = <<>>
                     THEN <<MergedRow(L[i], L[i], lcols, rcols, on, lname, rname,
                                      TRUE, FALSE)>>
                     ELSE [k \in 1..Len(matches(i)) |->
                             MergedRow(L[i], R[matches(i)[k]], lcols, rcols, on,
                                       lname, rname, TRUE, TRUE)]
        fromLeft == Flatten([i \in 1..Len(L) |-> expand(i)])
        \* the left rows key by key: the first row of each key, and the rows
        \* of the key of row f
        firstLeft == SortedSeq({i \in 1..Len(L) :
                                  \A j \in 1..(i - 1) : ~KeyEq(L[i], L[j], on)})
        sameLeft(f) == SortedSeq({i \in 1..Len(L) : KeyEq(L[i], L[f], on)})
        leftByKey == Flatten([k \in 1..Len(firstLeft) |->
                        Flatten([m \in 1..Len(sameLeft(firstLeft[k])) |->
                                    expand(sameLeft(firstLeft[k])[m])])])
        \* the right rows without a match, key by key
        rightOnly == {j \in 1..Len(R) :
                        \A i \in 1..Len(L) : ~KeyEq(L[i], R[j], on)}
        firstRight == SortedSeq({j \in rightOnly :
                                   \A k \in 1..(j - 1) : ~KeyEq(R[j], R[k], on)})
        sameRight(f) == SortedSeq({j \in 1..Len(R) : KeyEq(R[j], R[f], on)})
        rightByKey == Flatten([k \in 1..Len(firstRight) |->
                         [m \in 1..Len(sameRight(firstRight[k])) |->
                             MergedRow(R[sameRight(firstRight[k])[m]],
                                       R[sameRight(firstRight[k])[m]], lcols, rcols,
                                       on, lname, rname, FALSE, TRUE)]])
    IN IF how = "left"
       THEN DF(columns, fromLeft)
       ELSE DF(columns, leftByKey \o rightByKey)

----------------------------------------------------------------------------
(* pandasutils.DataFrame.group_aggregate *)

\* the most rows of a table handed to group_aggregate on its own
MaxAggRows == 3

RECURSIVE Gcd(_, _)
Gcd(a, b) == IF b = 0 THEN a ELSE Gcd(b, a % b)

RECURSIVE LcmUpTo(_)
LcmUpTo(n) == IF n <= 1 THEN 1 ELSE (LcmUpTo(n - 1) * n) \div Gcd(LcmUpTo(n - 1), n)

\* a mean is held as a whole number of 1/MeanScale, exact for every group of
\* up to MaxAggRows cells
MeanScale == LcmUpTo(MaxAggRows)

RECURSIVE CountNotNA(_)
CountNotNA(vs) ==
    IF vs = <<>> THEN 0
    ELSE (IF Head(vs) = NA THEN 0 ELSE 1) + CountNotNA(Tail(vs))

\* Series.mean() with skipna: the mean of the cells that are not NA, and NA
\* for a group with nothing but NA
MeanSkipNA(vs) ==
    IF CountNotNA(vs) = 0 THEN NA
    ELSE (SumSkipNA(vs) * MeanScale) \div CountNotNA(vs)

\* group_by.mean() if avg else group_by.sum(), on the cells of one group
Aggregate(vs, avg) == IF avg THEN MeanSkipNA(vs) ELSE SumSkipNA(vs)

\* the columns that hold no numbers (text, dates): sum() and mean() of a
\* groupby leave them out of the result
NonNumeric == {"Province/State", COUNTRY_REGION, DATE_RECORDED, VARIANT}

\* self.groupby(group_by).sum() or .mean(), then reset_index(): one row per
\* key tuple, the groups in key order, rows with a missing key left out, the
\* key columns first and every other column that holds numbers aggregated
\* over the group
group_aggregate(df, group_by, avg) ==
    LET rows == df.rows
        kept == {i \in 1..Len(rows) : ~KeyNA(rows[i], group_by)}
        firsts == {i \in kept : \A j \in kept : j < i => ~KeyEq(rows[i], rows[j], group_by)}
        order == OrderBy(rows, firsts, group_by)
        members(i) == SortedSeq({j \in kept : KeyEq(rows[i], rows[j], group_by)})
        others == SelectSeq(Without(df.columns, group_by), LAMBDA c : c \notin NonNumeric)
    IN DF(group_by \o others,
          [g \in 1..Len(order) |->
              [c \in Range(group_by \o others) |->
                  IF c \in Range(group_by) THEN rows[order[g]][c]
                  ELSE Aggregate([m \in 1..Len(members(order[g])) |->
                                     rows[members(order[g])[m]][c]], avg)]])

----------------------------------------------------------------------------
(* pandasutils.DataFrame.subtract_previous *)

ShiftPhysical(rows, field, group_field) ==
    [i \in 1..Len(rows) |-> IF i = 1 THEN NA ELSE rows[i - 1][field]]

\* df.groupby(group_field)[field].shift(1): the rows of each group, in row
\* order, moved down by one inside the group; the first of a group gets NA
GroupShift(rows, field, group_field) ==
    [i \in 1..Len(rows) |->
        LET idx == SortedSeq({j \in 1..Len(rows) :
                                 rows[j][group_field] = rows[i][group_field]})
            pos == CHOOSE p \in 1..Len(idx) : idx[p] = i
        IN IF pos = 1 THEN NA ELSE rows[idx[pos - 1]][field]]

subtract_previous(df, field, group_field, new_field) ==
    LET shifted == GroupShift(df.rows, field, group_field)
    IN DF(WithColumn(df.columns, new_field),
          [i \in 1..Len(df.rows) |->
              SetCol(df.rows[i], new_field,
                     Clip(Sub(df.rows[i][field], shifted[i])))])

----------------------------------------------------------------------------
(* Values that are not a DataFrame *)

\* Python's None
None == [none |-> TRUE]
IsNone(x) == "none" \in DOMAIN x

\* a raised exception, in the place of the value the call would have returned
Raised(what) == [raised |-> what]
IsRaised(x) == "raised" \in DOMAIN x

----------------------------------------------------------------------------
(* Dates: a parsed date is the number yyyymmdd *)

\* pd.to_datetime(s, format='%m/%d/%y')
to_datetime_mdy(s) ==
    CASE s = "1/22/20" -> 20200122
      [] s = "1/23/20" -> 20200123
      [] s = "1/24/20" -> 20200124
      [] s = "1/25/20" -> 20200125

\* pd.to_datetime(s) on the ISO dates of the vaccination source
to_datetime_iso(s) ==
    CASE s = "2020-01-22" -> 20200122
      [] s = "2020-01-23" -> 20200123
      [] s = "2020-01-24" -> 20200124
      [] s = "2020-01-25" -> 20200125

\* data/loader.py: the format for parsing the dates of the primary source
DATE_FORMAT == "%m/%d/%y"

\* converter_func(cell, **kwargs) for the converters the loader passes:
\* pd.to_datetime, with format=DATE_FORMAT or without a format ("None")
Convert(converter_func, v, format) ==
    CASE converter_func = "pd.to_datetime" ->
            IF format = DATE_FORMAT THEN to_datetime_mdy(v) ELSE to_datetime_iso(v)

\* DataFrame.field_convert(field, converter_func, format=format), in place
field_convert(df, field, converter_func, format) ==
    DF(df.columns,
       [i \in 1..Len(df.rows) |->
           SetCol(df.rows[i], field, Convert(converter_func, df.rows[i][field], format))])

\* df.rename(columns=mapper)
rename(df, mapper) ==
    LET new(c) == IF c \in DOMAIN mapper THEN mapper[c] ELSE c
    IN DF([k \in 1..Len(df.columns) |-> new(df.columns[k])],
          [i \in 1..Len(df.rows) |->
              [c \in {new(x) : x \in DOMAIN df.rows[i]} |->
                  df.rows[i][CHOOSE x \in DOMAIN df.rows[i] : new(x) = c]]])

\* df[fields]: KeyError when a field is not a column
select(df, fields) ==
    IF ~(Range(fields) \subseteq Range(df.columns)) THEN Raised("KeyError")
    ELSE DF(fields,
            [i \in 1..Len(df.rows) |-> [c \in Range(fields) |-> df.rows[i][c]]])

\* df.drop(field, axis=1)
drop_column(df, field) ==
    DF(Without(df.columns, <<field>>),
       [i \in 1..Len(df.rows) |->
           [c \in (DOMAIN df.rows[i]) \ {field} |-> df.rows[i][c]]])

----------------------------------------------------------------------------
(* pandasutils.DataFrame.fill_required *)

\* preprocessed_df[field] = pd.NA for each field of fields, in order
FillNA(df, fields) ==
    DF(df.columns \o fields,
       [i \in 1..Len(df.rows) |->
           [c \in Range(df.columns \o fields) |->
               IF c \in Range(df.columns) THEN df.rows[i][c] ELSE NA]])

\* fill_required once df is the renamed frame or the copy
FillRenamed(df, required_fields) ==
    LET fields_in_df == SelectSeq(required_fields, LAMBDA f : f \in Range(df.columns))
        fields_not_in_df == SelectSeq(required_fields,
                                      LAMBDA f : f \notin Range(fields_in_df))
    IN FillNA(select(df, fields_in_df), fields_not_in_df)

fill_required_norename(df, required_fields, rename_mapper) ==
    FillRenamed(df, required_fields)

\* DataFrame.fill_required(required_fields, rename_mapper)
fill_required(df, required_fields, rename_mapper) ==
    IF ~IsNone(rename_mapper)
    THEN FillRenamed(rename(df, rename_mapper), required_fields)
    ELSE FillRenamed(df, required_fields)

----------------------------------------------------------------------------
(* pandasutils.DataFrame.replace_rows *)

\* replacement.values: the cells of the rows by position, without the names
\* of the columns
Values(df) ==
    [i \in 1..Len(df.rows) |-> [k \in 1..Len(df.columns) |-> df.rows[i][df.columns[k]]]]

\* row p of values under the column names of df, cell by position
Positional(df, values, p) ==
    [c \in Range(df.columns) |->
        values[p][CHOOSE k \in 1..Len(df.columns) : df.columns[k] = c]]

\* df.loc[mask] = values for a two-dimensional array with as many columns as
\* df: row p of values goes to the p-th row of the mask when there are as
\* many rows as the mask holds.  What another shape does depends on the
\* pandas at hand: with a mask that holds no row, pandas 1.0 to 1.4 does
\* nothing (skips_empty) and pandas 1.5 hands the write to numpy; a single
\* row is given to every row of the mask by a pandas that broadcasts it
\* (broadcasts); any other shape raises ValueError and writes nothing
LocSet(df, mask, values, broadcasts, skips_empty) ==
    IF mask = <<>> /\ skips_empty THEN df
    ELSE IF Len(values) = Len(mask)
    THEN DF(df.columns,
            [i \in 1..Len(df.rows) |->
                IF \E p \in 1..Len(mask) : mask[p] = i
                THEN Positional(df, values, CHOOSE p \in 1..Len(mask) : mask[p] = i)
                ELSE df.rows[i]])
    ELSE IF Len(values) = 1 /\ broadcasts
    THEN DF(df.columns,
            [i \in 1..Len(df.rows) |->
                IF \E p \in 1..Len(mask) : mask[p] = i
                THEN Positional(df, values, 1)
                ELSE df.rows[i]])
    ELSE Raised("ValueError")

\* replace_rows from `df = self` on: the write, and what the call leaves
\* behind (df: the frame after the call, result: None or the exception)
ReplaceWrite(df, written) ==
    IF IsRaised(written) THEN [df |-> df, result |-> written]
    ELSE [df |-> written, result |-> None]

replace_rows_unchecked(df, column, value, replacement, broadcasts, skips_empty) ==
    ReplaceWrite(df, LocSet(df, SortedSeq({i \in 1..Len(df.rows) :
                                              df.rows[i][column] = value}),
                            Values(replacement), broadcasts, skips_empty))

\* DataFrame.replace_rows(column, value, replacement), in place
replace_rows(df, column, value, replacement, broadcasts, skips_empty) ==
    IF \E j \in 1..Len(replacement.rows) : replacement.rows[j][column] # value
    THEN [df |-> df, result |-> Raised("ValueError")]
    ELSE ReplaceWrite(df, LocSet(df, SortedSeq({i \in 1..Len(df.rows) :
                                                   df.rows[i][column] = value}),
                                 Values(replacement), broadcasts, skips_empty))

----------------------------------------------------------------------------
(* pandasutils.DataFrame.create_column *)

\* df[column_name] = data: one value (held as a list of one) is given to
\* every row, a list gives row i its i-th value; the column stays where it
\* is or is added last
SetColumn(df, column_name, data) ==
    DF(WithColumn(df.columns, column_name),
       [i \in 1..Len(df.rows) |->
           SetCol(df.rows[i], column_name,
                  IF data.kind = "list" THEN data.v[i] ELSE data.v[1])])

create_column_overwriting(df, column_name, data_or_producer_func, overwrite) ==
    [df |-> SetColumn(df, column_name, data_or_producer_func.gives),
     result |-> None,
     produced |-> IF data_or_producer_func.callable THEN 1 ELSE 0]

\* DataFrame.create_column(column_name, data_or_producer_func,
\* overwrite=overwrite), in place.  data_or_producer_func is a producer
\* (callable) that gives a value when called, or the value itself; produced
\* counts the calls of the producer
create_column(df, column_name, data_or_producer_func, overwrite) ==
    IF column_name \in Range(df.columns) /\ ~overwrite
    THEN [df |-> df, result |-> Raised("ValueError"), produced |-> 0]
    ELSE [df |-> SetColumn(df, column_name, data_or_producer_func.gives),
          result |-> None,
          produced |-> IF data_or_producer_func.callable THEN 1 ELSE 0]

----------------------------------------------------------------------------
(* GithubDataRetriever.retrieve *)

\* _melt: wide form into long form, one row per (source row, date column);
\* the date columns are those after the first four
_melt(df, value_name) ==
    LET dates == SubSeq(df.columns, 5, Len(df.columns))
    IN DF(<<COUNTRY_REGION, DATE_RECORDED, value_name>>,
          Flatten([d \in 1..Len(dates) |->
              [i \in 1..Len(df.rows) |->
                  [c \in {COUNTRY_REGION, DATE_RECORDED, value_name} |->
                      IF c = COUNTRY_REGION THEN df.rows[i][COUNTRY_REGION]
                      ELSE IF c = DATE_RECORDED THEN dates[d]
                      ELSE df.rows[i][dates[d]]]]]))

retrieve(confirmed, deaths, recovered) ==
    LET df_confirmed == _melt(confirmed, CONFIRMED)
        df_deaths == _melt(deaths, DEATHS)
        df_recovered == _melt(recovered, RECOVERED)
        with_deaths == pd_merge(df_confirmed, df_deaths,
                                <<COUNTRY_REGION, DATE_RECORDED>>, "left")
        full_df == pd_merge(with_deaths, df_recovered,
                            <<COUNTRY_REGION, DATE_RECORDED>>, "left")
    IN field_convert(full_df, DATE_RECORDED, "pd.to_datetime", DATE_FORMAT)

----------------------------------------------------------------------------
(* _preprocess_whole_df *)

_preprocess_whole_df(df) ==
    LET grouped == group_aggregate(df, <<DATE_RECORDED, COUNTRY_REGION, CONFIRMED>>, FALSE)
        unique == drop_duplicates_last(grouped, <<DATE_RECORDED, COUNTRY_REGION>>)
        cases == subtract_previous(unique, CONFIRMED, COUNTRY_REGION, NEW_CASES)
    IN subtract_previous(cases, DEATHS, COUNTRY_REGION, NEW_DEATHS)

----------------------------------------------------------------------------
(* The vaccinations dataset, _get_vaccinations_dataset *)

\* processor: the pre-processor of the vaccinations source
vaccinations_processor(df) ==
    LET renamed == rename(df, [c \in {"Country_Region", "Date", "Doses_admin"} |->
                                  IF c = "Country_Region" THEN COUNTRY_REGION
                                  ELSE IF c = "Date" THEN DATE_RECORDED
                                  ELSE TOTAL_VACCINATIONS])
        dated == field_convert(renamed, DATE_RECORDED, "pd.to_datetime", "None")
    IN select(group_aggregate(dated, <<DATE_RECORDED, COUNTRY_REGION>>, FALSE),
              VACCINE_FIELDS)

\* compute_daily_vaccines: the post-processor of the vaccinations merge
compute_daily_vaccines(df) ==
    IF TOTAL_VACCINATIONS \notin Range(df.columns) THEN Raised("KeyError")
    ELSE subtract_previous(df, TOTAL_VACCINATIONS, COUNTRY_REGION, DAILY_VACCINATIONS)

----------------------------------------------------------------------------
(* The populations dataset, _get_populations_dataset *)

\* datetime.date.today().year
ThisYear == 2021

\* astype('uint32') of a whole number: every count of the model lies in
\* 0 .. 2^31 - 1, a range the cast leaves as it is
Uint32(x) == x

\* astype('uint32') of PopTotal: the source gives thousands with three
\* decimals, held here as persons; the cast cuts the decimals off
PopTotalUint32(persons) == Uint32(persons \div 1000)

\* processor: the pre-processor of the populations source
populations_processor(df) ==
    IF ~({"Location", "Time", "PopTotal"} \subseteq Range(df.columns))
    THEN Raised("KeyError")
    ELSE
    LET located == [i \in 1..Len(df.rows) |->
                      [c \in {"Location", "Time", "PopTotal"} |->
                          IF c = "Location"
                          THEN (IF df.rows[i][c] = "United States of America (and dependencies)"
                                THEN "US" ELSE df.rows[i][c])
                          ELSE df.rows[i][c]]]
        thisYear == Filter(located, {i \in 1..Len(located) :
                                        located[i]["Time"] = ThisYear})
    IN IF \E i \in 1..Len(thisYear) : thisYear[i]["PopTotal"] = NA
       THEN Raised("ValueError")
       ELSE
       LET cast == [i \in 1..Len(thisYear) |->
                      SetCol(thisYear[i], "PopTotal",
                             PopTotalUint32(thisYear[i]["PopTotal"]))]
           isMax(i) == \A j \in 1..Len(cast) :
                          cast[j]["Location"] = cast[i]["Location"]
                              => cast[j]["PopTotal"] <= cast[i]["PopTotal"]
           largest == Filter(cast, {i \in 1..Len(cast) : isMax(i)})
       IN DF(<<COUNTRY_REGION, POPULATION>>,
             [i \in 1..Len(largest) |->
                 [c \in {COUNTRY_REGION, POPULATION} |->
                     IF c = COUNTRY_REGION THEN largest[i]["Location"]
                     ELSE largest[i]["PopTotal"] * 1000]])

notna_rows_all(df, column) == df.rows

\* df[~df[column].isna()]: the rows with a value in the column
notna_rows(df, column) ==
    Filter(df.rows, {i \in 1..Len(df.rows) : df.rows[i][column] # NA})

\* post_processor: the post-processor of the populations merge
populations_post_processor(df) ==
    IF POPULATION \notin Range(df.columns) THEN Raised("KeyError")
    ELSE
    LET known == notna_rows(df, POPULATION)
        cast == [i \in 1..Len(known) |->
                   SetCol(known[i], POPULATION, Uint32(known[i][POPULATION]))]
    IN group_aggregate(DF(df.columns, cast), <<COUNTRY_REGION, DATE_RECORDED>>, FALSE)

----------------------------------------------------------------------------
(* The processing functions of load() *)

\* drop_rep_ireland
drop_rep_ireland(df) ==
    DF(df.columns,
       Filter(df.rows, {i \in 1..Len(df.rows) :
                          df.rows[i][COUNTRY_REGION] # "Republic of Ireland"}))

\* float division by zero gives inf (NaN for 0/0)
INF == 1000000000

\* n / d rounded to the nearest whole number, halves to the even one (n >= 0, d > 0)
RoundDiv(n, d) ==
    LET q == n \div d
        r == n % d
    IN IF 2 * r < d THEN q
       ELSE IF 2 * r > d THEN q + 1
       ELSE IF q % 2 = 0 THEN q ELSE q + 1

RatioFinite(a, b, mult, scale) ==
    IF a = NA \/ b = NA \/ b = 0 THEN 0
    ELSE RoundDiv(a * mult * scale, b)

\* ((a / b) * mult).round(decimals), held as a whole number of 10^-decimals:
\* scale is 10^decimals
Ratio(a, b, mult, scale) ==
    IF a = NA \/ b = NA THEN NA
    ELSE IF b = 0 THEN (IF a = 0 THEN NA ELSE INF)
    ELSE RoundDiv(a * mult * scale, b)

calculate_population_metrics(df) ==
    IF ~({POPULATION, FULLY_VACCINATED, NEW_CASES, NEW_DEATHS} \subseteq Range(df.columns))
    THEN Raised("KeyError")
    ELSE
    LET columns == WithColumn(WithColumn(WithColumn(WithColumn(df.columns,
                       UNVACCINATED), CASES_PER_THOUSAND), DEATHS_PER_THOUSAND),
                       PERCENTAGE_VACCINATED)
        row(r) ==
            [c \in Range(columns) |->
                IF c = UNVACCINATED THEN Sub(r[POPULATION], r[FULLY_VACCINATED])
                ELSE IF c = CASES_PER_THOUSAND
                     THEN Ratio(r[NEW_CASES], r[POPULATION], 100000, 100)
                ELSE IF c = DEATHS_PER_THOUSAND
                     THEN Ratio(r[NEW_DEATHS], r[POPULATION], 100000, 100)
                ELSE IF c = PERCENTAGE_VACCINATED
                     THEN Ratio(r[FULLY_VACCINATED], r[POPULATION], 100, 10)
                ELSE r[c]]
    IN drop_column(DF(columns, [i \in 1..Len(df.rows) |-> row(df.rows[i])]),
                   POPULATION)

----------------------------------------------------------------------------
(* data/datasets.py: the producers of the registry *)

VARIANT_FIELDS ==
    <<COUNTRY_REGION, DATE_RECORDED, VARIANT, NUMBER_DETECTIONS_VARIANT, PERCENT_VARIANT>>
TESTING_FIELDS ==
    <<COUNTRY_REGION, DATE_RECORDED, TOTAL_TESTS, DAILY_TESTS, POSITIVE_RATE>>

OWID_VACCINATIONS_URL == "vaccinations/vaccinations.csv"
VARIANT_DATA == "covid-variants.csv"
TESTING_DATA == "covid-testing-all-observations.csv"

\* lambda x: 'US' if x == 'United States' else x
us_mapper(x) == IF x = "United States" THEN "US" ELSE x

\* df[field] = df[field].apply(f) for the mappers of the producers
MapCountry(df) ==
    DF(df.columns,
       [i \in 1..Len(df.rows) |->
           SetCol(df.rows[i], COUNTRY_REGION, us_mapper(df.rows[i][COUNTRY_REGION]))])

\* processor of datasets._get_vaccinations_dataset
vaccinations_processor_owid(df) ==
    IF ~({"date", "people_vaccinated", FULLY_VACCINATED} \subseteq Range(df.columns))
    THEN Raised("KeyError")
    ELSE
    LET renamed == rename(df, [c \in {"location", "date", "total_vaccinations"} |->
                                  IF c = "location" THEN COUNTRY_REGION
                                  ELSE IF c = "date" THEN DATE_RECORDED
                                  ELSE TOTAL_VACCINATIONS])
        dated == field_convert(renamed, DATE_RECORDED, "pd.to_datetime", "%Y-%m-%d")
        grouped == group_aggregate(dated, <<DATE_RECORDED, COUNTRY_REGION>>, FALSE)
        partial == DF(WithColumn(grouped.columns, PARTIALLY_VACCINATED),
                      [i \in 1..Len(grouped.rows) |->
                          SetCol(grouped.rows[i], PARTIALLY_VACCINATED,
                                 Sub(grouped.rows[i]["people_vaccinated"],
                                     grouped.rows[i][FULLY_VACCINATED]))])
    IN select(MapCountry(partial), VACCINE_FIELDS)

\* variant_mapper, on the variant names of the model: 'Unknown' for a name
\* that starts with 'B' or 'S' or is 'non_who'
variant_mapper(variant) ==
    IF variant \in {"B.1.1.277", "S:677H.Robin1", "non_who"} THEN "Unknown"
    ELSE variant

\* processor of datasets._get_variant_dataset
variant_processor(df) ==
    LET renamed == rename(df, [c \in {"location", "date", "num_sequences",
                                     "perc_sequences"} |->
                                  IF c = "location" THEN COUNTRY_REGION
                                  ELSE IF c = "date" THEN DATE_RECORDED
                                  ELSE IF c = "num_sequences"
                                       THEN NUMBER_DETECTIONS_VARIANT
                                  ELSE PERCENT_VARIANT])
        fields == select(renamed, VARIANT_FIELDS)
    IN IF IsRaised(fields) THEN fields
       ELSE LET mapped == MapCountry(field_convert(fields, DATE_RECORDED,
                                                    "pd.to_datetime", "%Y-%m-%d"))
            IN DF(mapped.columns,
                  [i \in 1..Len(mapped.rows) |->
                      SetCol(mapped.rows[i], VARIANT,
                             variant_mapper(mapped.rows[i][VARIANT]))])

\* the entity names of the model that hold a '-': on any other name
\* country.index('-') raises ValueError
HasDash(country) ==
    country \in {"Ireland - tests performed", "United States - tests performed"}

\* country[:country.index('-')].strip() on the entity names of the model
EntityCountry(country) ==
    CASE country = "Ireland - tests performed" -> "Ireland"
      [] country = "United States - tests performed" -> "United States"

\* country_mapper of datasets._get_testing_dataset
country_mapper(country) == us_mapper(EntityCountry(country))

\* processor of datasets._get_testing_dataset
testing_processor(df) ==
    IF ~({"Entity", "Date"} \subseteq Range(df.columns)) THEN Raised("KeyError")
    ELSE
    LET renamed == rename(df, [c \in {"Entity", "Date",
                                     "Daily change in cumulative total",
                                     "Cumulative total",
                                     "Short-term positive rate"} |->
                                  IF c = "Entity" THEN COUNTRY_REGION
                                  ELSE IF c = "Date" THEN DATE_RECORDED
                                  ELSE IF c = "Cumulative total" THEN TOTAL_TESTS
                                  ELSE IF c = "Short-term positive rate"
                                       THEN POSITIVE_RATE
                                  ELSE DAILY_TESTS])
        dated == field_convert(renamed, DATE_RECORDED, "pd.to_datetime", "%Y-%m-%d")
    IN IF \E i \in 1..Len(dated.rows) : ~HasDash(dated.rows[i][COUNTRY_REGION])
       THEN Raised("ValueError")
       ELSE select(DF(dated.columns,
                      [i \in 1..Len(dated.rows) |->
                          SetCol(dated.rows[i], COUNTRY_REGION,
                                 country_mapper(dated.rows[i][COUNTRY_REGION]))]),
                   TESTING_FIELDS)

\* a registered pre-, post- or processing function, called by its name
Call(func, df) ==
    CASE func = "processor@vaccinations" -> vaccinations_processor(df)
      [] func = "compute_daily_vaccines" -> compute_daily_vaccines(df)
      [] func = "processor@populations" -> populations_processor(df)
      [] func = "post_processor@populations" -> populations_post_processor(df)
      [] func = "drop_rep_ireland" -> drop_rep_ireland(df)
      [] func = "calculate_population_metrics" -> calculate_population_metrics(df)
      [] func = "processor@datasets.vaccinations" -> vaccinations_processor_owid(df)
      [] func = "processor@variants" -> variant_processor(df)
      [] func = "processor@testing" -> testing_processor(df)

----------------------------------------------------------------------------
(* CustomDataset *)

\* CustomDataset.__init__
CustomDataset(path_or_url, on, how, pre_processor, post_processor) ==
    [path_or_url |-> path_or_url, on |-> on, how |-> how,
     pre_processor |-> pre_processor, post_processor |-> post_processor,
     df |-> None]

_get_vaccinations_dataset ==
    CustomDataset(VACCINATIONS_URL, <<COUNTRY_REGION, DATE_RECORDED>>, "outer",
                  "processor@vaccinations", "compute_daily_vaccines")

_get_populations_dataset ==
    CustomDataset(POPULATIONS_URL, <<COUNTRY_REGION>>, "outer",
                  "processor@populations", "post_processor@populations")

\* CustomDataset.read, inside `if self.df is None`, once the source is
\* read: self.df holds the raw frame while the pre-processor runs, and its
\* result afterwards
ReadStore(self, csv, processed) ==
    IF IsRaised(processed)
    THEN [self |-> [self EXCEPT !.df = csv], result |-> processed]
    ELSE [self |-> [self EXCEPT !.df = processed], result |-> processed]

\* CustomDataset.read.  csv is what pu.from_csv(self.path_or_url) gives when
\* it is called: the frame of the source, or the exception it raises.
\* Gives the object after the call and the value returned (or raised).
Read(self, csv) ==
    IF IsNone(self.df)
    THEN IF IsRaised(csv) THEN [self |-> self, result |-> csv]
         ELSE IF self.pre_processor = "None"
         THEN [self |-> [self EXCEPT !.df = csv], result |-> csv]
         ELSE ReadStore(self, csv, Call(self.pre_processor, csv))
    ELSE [self |-> self, result |-> self.df]

JoinLeftOnly(self, df, right_df) ==
    IF ~(Range(self.on) \subseteq Range(df.columns) \cap Range(right_df.columns))
    THEN Raised("KeyError")
    ELSE pd_merge(df, right_df, self.on, "left")

JoinInner(self, df, right_df) ==
    IF ~(Range(self.on) \subseteq Range(df.columns) \cap Range(right_df.columns))
    THEN Raised("KeyError")
    ELSE LET outer == pd_merge(df, right_df, self.on, "outer")
         IN DF(outer.columns,
               Filter(outer.rows,
                      {i \in 1..Len(outer.rows) :
                          /\ \E l \in 1..Len(df.rows) :
                                KeyEq(outer.rows[i], df.rows[l], self.on)
                          /\ \E r \in 1..Len(right_df.rows) :
                                KeyEq(outer.rows[i], right_df.rows[r], self.on)}))

\* the join of CustomDataset.merge: pd.merge(df, right_df, on=self.on,
\* how=self.how); KeyError when a key is not a column of both frames
Join(self, df, right_df) ==
    IF ~(Range(self.on) \subseteq Range(df.columns) \cap Range(right_df.columns))
    THEN Raised("KeyError")
    ELSE pd_merge(df, right_df, self.on, self.how)

MergePostSkip(self, right_df, joined) ==
    [self |-> self, right |-> right_df, joined |-> joined, result |-> joined]

\* CustomDataset.merge after the join: the post-processor, if any, and return
MergePost(self, right_df, joined) ==
    [self |-> self, right |-> right_df, joined |-> joined,
     result |-> IF IsRaised(joined) \/ self.post_processor = "None" THEN joined
                ELSE Call(self.post_processor, joined)]

\* CustomDataset.merge after right_df = self.read()
MergeRead(df, read) ==
    IF IsRaised(read.result)
    THEN [self |-> read.self, right |-> None, joined |-> None, result |-> read.result]
    ELSE MergePost(read.self, read.result, Join(read.self, df, read.result))

\* CustomDataset.merge.  Gives the object after the call, the joined frame
\* and the value returned (or raised).
Merge(self, df, csv) == MergeRead(df, Read(self, csv))

----------------------------------------------------------------------------
(* The parts of the state a specification does not use *)

Empty == DF(<<>>, <<>>)

SubUnused == arg = Empty /\ res = Empty

NoSources ==
    /\ confirmed_csv = Empty /\ deaths_csv = Empty /\ recovered_csv = Empty
    /\ vaccinations_csv = Empty /\ populations_csv = Empty /\ plain_csv = Empty
    /\ variants_csv = Empty /\ testing_csv = Empty

LoadUnused ==
    /\ output_file = None
    /\ ADDITIONAL_PROCESSORS = <<>>
    /\ ADDITIONAL_DATASETS = <<>>
    /\ final_df = None
    /\ merged = None
    /\ loop = 0
    /\ returned = None
    /\ failure = "none"

DsUnused ==
    /\ custom = None
    /\ call = None
    /\ n_calls = 0 /\ n_fetch = 0 /\ n_pre = 0

RegUnused ==
    /\ custom_datasets = <<>>
    /\ instances = <<>>
    /\ events = <<>>
    /\ run = 0

----------------------------------------------------------------------------
(* Specification SpecSub: subtract_previous on every small table *)

Groups == {"Ireland", "US"}

SubTables ==
    {DF(<<COUNTRY_REGION, CONFIRMED>>, r) :
        r \in SeqUpTo({[x \in {COUNTRY_REGION, CONFIRMED} |->
                          IF x = COUNTRY_REGION THEN g ELSE v] :
                          g \in Groups, v \in (0..MaxVal) \cup {NA}}, MaxRows)}

InitSub ==
    /\ pc = "sub_call"
    /\ arg \in SubTables
    /\ res = DF(<<>>, <<>>)
    /\ NoSources
    /\ LoadUnused
    /\ DsUnused
    /\ RegUnused

\* df.subtract_previous(CONFIRMED, COUNTRY_REGION, NEW_CASES), in place
SubtractPrevious ==
    /\ pc = "sub_call"
    /\ res' = subtract_previous(arg, CONFIRMED, COUNTRY_REGION, NEW_CASES)
    /\ pc' = "sub_done"
    /\ UNCHANGED <<arg, srcVars, loadVars, dsVars, regVars>>

NextSub == SubtractPrevious

SpecSub == InitSub /\ [][NextSub]_vars

\* the nearest earlier row of the same group, 0 when row i is the first of its group
PrevInGroup(rows, i, group_field) ==
    LET earlier == {j \in 1..(i - 1) : rows[j][group_field] = rows[i][group_field]}
    IN IF earlier = {} THEN 0 ELSE CHOOSE j \in earlier : \A k \in earlier : k <= j

\* C1: after subtract_previous every output value is null or >= 0, never
\* negative, the first row of each group included.
C1_NeverNegative ==
    pc = "sub_done" =>
        \A i \in 1..Len(res.rows) :
            res.rows[i][NEW_CASES] = NA \/ res.rows[i][NEW_CASES] >= 0

\* a cumulative counter regressed inside a group and its delta was clamped to 0
C1_Witness ==
    /\ pc = "sub_done"
    /\ \E i \in 1..Len(arg.rows) :
          LET p == PrevInGroup(arg.rows, i, COUNTRY_REGION)
          IN /\ p # 0
             /\ arg.rows[i][CONFIRMED] # NA
             /\ arg.rows[p][CONFIRMED] # NA
             /\ arg.rows[i][CONFIRMED] < arg.rows[p][CONFIRMED]
             /\ res.rows[i][NEW_CASES] = 0

\* C2: for a row that is not the first of its group the output is
\* max(0, value[i] - value[p]), p being the nearest earlier row of the same
\* group in row order (not the physically preceding row); for the first row
\* of each group the output is null.  The input columns are left as they were.
C2_DeltaWithinGroup ==
    pc = "sub_done" =>
        /\ Len(res.rows) = Len(arg.rows)
        /\ \A i \in 1..Len(arg.rows) :
              LET p == PrevInGroup(arg.rows, i, COUNTRY_REGION)
                  v == arg.rows[i][CONFIRMED]
              IN /\ res.rows[i][CONFIRMED] = v
                 /\ res.rows[i][COUNTRY_REGION] = arg.rows[i][COUNTRY_REGION]
                 /\ p = 0 => res.rows[i][NEW_CASES] = NA
                 /\ (p # 0 /\ v # NA /\ arg.rows[p][CONFIRMED] # NA) =>
                       res.rows[i][NEW_CASES] =
                         (IF v - arg.rows[p][CONFIRMED] > 0
                          THEN v - arg.rows[p][CONFIRMED] ELSE 0)

\* two groups interleaved: the row before row i belongs to the other group,
\* and the delta taken inside the group differs from the delta to that row
C2_Witness ==
    /\ pc = "sub_done"
    /\ \E i \in 2..Len(arg.rows) :
          LET p == PrevInGroup(arg.rows, i, COUNTRY_REGION)
          IN /\ p # 0 /\ p # i - 1
             /\ arg.rows[i][CONFIRMED] # NA
             /\ arg.rows[p][CONFIRMED] # NA
             /\ arg.rows[i - 1][CONFIRMED] # NA
             /\ arg.rows[i][CONFIRMED] > arg.rows[p][CONFIRMED]
             /\ arg.rows[i][CONFIRMED] - arg.rows[p][CONFIRMED]
                   # arg.rows[i][CONFIRMED] - arg.rows[i - 1][CONFIRMED]
             /\ res.rows[i][NEW_CASES]
                   = arg.rows[i][CONFIRMED] - arg.rows[p][CONFIRMED]

----------------------------------------------------------------------------
(* The sources load() reads *)

\* the date columns of the three primary time series
DateColumns == <<"1/22/20", "1/23/20", "1/24/20">>
\* the same days as the vaccination source writes them
IsoDates == <<"2020-01-22", "2020-01-23", "2020-01-24">>

WideColumns == <<"Province/State", COUNTRY_REGION, "Lat", "Long">> \o DateColumns

\* one row of a primary time series: a location and its cumulative counters
WideRow(country, series) ==
    [c \in Range(WideColumns) |->
        IF c = COUNTRY_REGION THEN country
        ELSE IF c = "Province/State" THEN ""
        ELSE IF c \in {"Lat", "Long"} THEN 0
        ELSE series[CHOOSE d \in 1..Len(DateColumns) : DateColumns[d] = c]]

\* the locations of the primary source: the country of each source row
Layouts == {<<"US">>, <<"US", "US">>, <<"US", "Ireland">>,
            <<"US", "Republic of Ireland">>}

\* the confirmed series: the first location has any counters, a second one
\* has one case throughout
ConfirmedCsv(layout, series) ==
    DF(WideColumns,
       [k \in 1..Len(layout) |->
           WideRow(layout[k], IF k = 1 THEN series
                              ELSE [d \in 1..Len(DateColumns) |-> 1])])

DeathsCsv(layout) ==
    DF(WideColumns,
       [k \in 1..Len(layout) |->
           WideRow(layout[k], [d \in 1..Len(DateColumns) |->
                                  IF d = 1 THEN 0 ELSE IF k = 1 THEN 1 ELSE d - 2])])

\* the recovered series has one row for each country
RecoveredCsv(layout) ==
    LET firsts == SortedSeq({k \in 1..Len(layout) :
                               \A j \in 1..(k - 1) : layout[j] # layout[k]})
    IN DF(WideColumns,
          [k \in 1..Len(firsts) |->
              WideRow(layout[firsts[k]], [d \in 1..Len(DateColumns) |-> 0])])

VaccinationColumns ==
    <<"Country_Region", "Date", "Doses_admin", FULLY_VACCINATED, TOTAL_BOOSTERS,
      PARTIALLY_VACCINATED, BOOSTERS_PER_HUNDRED>>

VaccinationRow(country, d) ==
    [c \in Range(VaccinationColumns) |->
        IF c = "Country_Region" THEN country
        ELSE IF c = "Date" THEN IsoDates[d]
        ELSE IF c = "Doses_admin" THEN 2 * d
        ELSE IF c = FULLY_VACCINATED THEN d - 1
        ELSE NA]

\* the vaccination source: the US on every day but day `missing` (0: on every
\* day), and Ireland on the first day
VaccinationsCsv(missing) ==
    DF(VaccinationColumns,
       [k \in 1..Len(SortedSeq((1..Len(IsoDates)) \ {missing})) |->
           VaccinationRow("US", SortedSeq((1..Len(IsoDates)) \ {missing})[k])]
       \o <<VaccinationRow("Ireland", 1)>>)

PopulationColumns == <<"Location", "Time", "PopTotal">>

PopulationRow(location, time, persons) ==
    [c \in Range(PopulationColumns) |->
        IF c = "Location" THEN location ELSE IF c = "Time" THEN time ELSE persons]

\* the population source: Ireland always, and the US with one largest
\* variant of this year ("one"), with two variants that the cast makes equal
\* ("tied"), with an empty cell ("nan") or not at all ("none")
PopulationsCsv(us) ==
    LET usa == "United States of America (and dependencies)"
    IN DF(PopulationColumns,
          <<PopulationRow("Ireland", ThisYear, 5000),
            PopulationRow("Ireland", ThisYear - 1, 4000)>>
          \o (CASE us = "one" -> <<PopulationRow(usa, ThisYear, 7200),
                                   PopulationRow(usa, ThisYear, 6100),
                                   PopulationRow(usa, ThisYear - 1, 9000)>>
                [] us = "tied" -> <<PopulationRow(usa, ThisYear, 7200),
                                    PopulationRow(usa, ThisYear, 7900)>>
                [] us = "nan" -> <<PopulationRow(usa, ThisYear, NA)>>
                [] us = "none" -> <<>>))

\* an earlier run's file at the output path
StaleFile == DF(<<DATE_RECORDED, COUNTRY_REGION>>, <<>>)

\* pu.from_csv(path_or_url) when the source can be fetched
from_csv(path_or_url) ==
    CASE path_or_url = VACCINATIONS_URL -> vaccinations_csv
      [] path_or_url = POPULATIONS_URL -> populations_csv
      [] path_or_url = "plain.csv" -> plain_csv
      [] path_or_url = OWID_VACCINATIONS_URL -> vaccinations_csv
      [] path_or_url = VARIANT_DATA -> variants_csv
      [] path_or_url = TESTING_DATA -> testing_csv

----------------------------------------------------------------------------
(* Specification Spec: load(output) *)

Init ==
    /\ pc = "load"
    /\ \E layout \in Layouts, series \in [1..Len(DateColumns) -> 0..MaxVal] :
          /\ confirmed_csv = ConfirmedCsv(layout, series)
          /\ deaths_csv = DeathsCsv(layout)
          /\ recovered_csv = RecoveredCsv(layout)
    /\ \E missing \in 0..Len(IsoDates) : vaccinations_csv = VaccinationsCsv(missing)
    /\ \E us \in {"one", "tied", "nan", "none"} : populations_csv = PopulationsCsv(us)
    /\ plain_csv = Empty
    /\ variants_csv = Empty /\ testing_csv = Empty
    /\ output_file \in {None, StaleFile}
    /\ ADDITIONAL_PROCESSORS = <<>>
    /\ ADDITIONAL_DATASETS = <<>>
    /\ final_df = None
    /\ merged = None
    /\ loop = 0
    /\ returned = None
    /\ failure = "none"
    /\ SubUnused
    /\ DsUnused
    /\ RegUnused

os_remove_keep(file) == file

\* os.remove(output)
os_remove(file) == None

\* load(): the output path is cleared, the two processing functions and the
\* two datasets are registered, and _load_data starts
Load ==
    /\ pc = "load"
    /\ output_file' = IF ~IsNone(output_file) THEN os_remove(output_file)
                      ELSE output_file
    /\ ADDITIONAL_PROCESSORS' = ADDITIONAL_PROCESSORS
                                  \o <<"drop_rep_ireland", "calculate_population_metrics">>
    /\ ADDITIONAL_DATASETS' = ADDITIONAL_DATASETS
                                \o <<_get_vaccinations_dataset, _get_populations_dataset>>
    /\ pc' = "retrieve"
    /\ UNCHANGED <<final_df, merged, loop, returned, failure, subVars, srcVars, dsVars, regVars>>

\* _load_data: final_df = data_retriever.retrieve(); a source that cannot be
\* fetched raises
Retrieve ==
    /\ pc = "retrieve"
    /\ \E ok \in BOOLEAN :
          IF ok
          THEN /\ final_df' = retrieve(confirmed_csv, deaths_csv, recovered_csv)
               /\ pc' = "preprocess"
               /\ UNCHANGED failure
          ELSE /\ pc' = "raised"
               /\ failure' = "primary"
               /\ UNCHANGED final_df
    /\ UNCHANGED <<output_file, ADDITIONAL_PROCESSORS, ADDITIONAL_DATASETS, merged,
                   loop, returned, subVars, srcVars, dsVars, regVars>>

\* _load_data: final_df = _preprocess_whole_df(final_df), and _do_merges starts
Preprocess ==
    /\ pc = "preprocess"
    /\ final_df' = _preprocess_whole_df(final_df)
    /\ merged' = final_df'
    /\ loop' = 1
    /\ pc' = "merge"
    /\ UNCHANGED <<output_file, ADDITIONAL_PROCESSORS, ADDITIONAL_DATASETS, returned,
                   failure, subVars, srcVars, dsVars, regVars>>

_do_merges_swallow(df, m) ==
    [self |-> m.self, raised |-> FALSE,
     df |-> IF IsRaised(m.result) THEN df ELSE m.result]

\* one round of the loop of _do_merges: df = custom.merge(df), m being what
\* custom.merge(df) gives; an exception of merge leaves the loop and the
\* function
_do_merges_step(df, m) ==
    [self |-> m.self, raised |-> IsRaised(m.result),
     df |-> IF IsRaised(m.result) THEN df ELSE m.result]

\* the state after one round of the loop of _do_merges
MergeRound(path_or_url, m, step) ==
    /\ ADDITIONAL_DATASETS' = [ADDITIONAL_DATASETS EXCEPT ![loop] = step.self]
    /\ failure' = IF IsRaised(m.result) THEN path_or_url ELSE failure
    /\ IF step.raised
       THEN pc' = "raised" /\ UNCHANGED <<merged, loop>>
       ELSE pc' = "merge" /\ merged' = step.df /\ loop' = loop + 1

MergeCall(path_or_url, m) == MergeRound(path_or_url, m, _do_merges_step(merged, m))

MergeNext ==
    /\ pc = "merge"
    /\ loop <= Len(ADDITIONAL_DATASETS)
    /\ \E ok \in BOOLEAN :
          MergeCall(ADDITIONAL_DATASETS[loop].path_or_url,
                    Merge(ADDITIONAL_DATASETS[loop], merged,
                          IF ok THEN from_csv(ADDITIONAL_DATASETS[loop].path_or_url)
                          ELSE Raised("URLError")))
    /\ UNCHANGED <<output_file, ADDITIONAL_PROCESSORS, final_df, returned, subVars,
                   srcVars, dsVars, regVars>>

isin_skip(df, other) == df

\* df[df[COUNTRY_REGION].isin(other[COUNTRY_REGION])]
isin(df, other) ==
    DF(df.columns,
       Filter(df.rows,
              {i \in 1..Len(df.rows) :
                  \E j \in 1..Len(other.rows) :
                      df.rows[i][COUNTRY_REGION] = other.rows[j][COUNTRY_REGION]}))

\* _load_data: merged = merged[merged[COUNTRY_REGION].isin(final_df[COUNTRY_REGION])]
Restrict ==
    /\ pc = "merge"
    /\ loop > Len(ADDITIONAL_DATASETS)
    /\ merged' = isin(merged, final_df)
    /\ final_df' = merged'
    /\ loop' = 1
    /\ pc' = "funcs"
    /\ UNCHANGED <<output_file, ADDITIONAL_PROCESSORS, ADDITIONAL_DATASETS, returned,
                   failure, subVars, srcVars, dsVars, regVars>>

ProcessRoundSkip(out) ==
    IF IsRaised(out)
    THEN pc' = "raised" /\ UNCHANGED <<final_df, loop>>
    ELSE pc' = "funcs" /\ final_df' = out /\ loop' = loop + 2

\* the state after one round of the loop of _processing_funcs
ProcessRound(out) ==
    IF IsRaised(out)
    THEN pc' = "raised" /\ UNCHANGED <<final_df, loop>>
    ELSE pc' = "funcs" /\ final_df' = out /\ loop' = loop + 1

\* one round of the loop of _processing_funcs: df = func(df)
ProcessNext ==
    /\ pc = "funcs"
    /\ loop <= Len(ADDITIONAL_PROCESSORS)
    /\ ProcessRound(Call(ADDITIONAL_PROCESSORS[loop], final_df))
    /\ UNCHANGED <<output_file, ADDITIONAL_PROCESSORS, ADDITIONAL_DATASETS, merged,
                   returned, failure, subVars, srcVars, dsVars, regVars>>

\* _load_data: the table is sorted by date, written to the output path and
\* returned
Finish ==
    /\ pc = "funcs"
    /\ loop > Len(ADDITIONAL_PROCESSORS)
    /\ final_df' = sort_values(final_df, DATE_RECORDED)
    /\ output_file' = final_df'
    /\ returned' = final_df'
    /\ pc' = "done"
    /\ UNCHANGED <<ADDITIONAL_PROCESSORS, ADDITIONAL_DATASETS, merged, loop, failure,
                   subVars, srcVars, dsVars, regVars>>

Next == Load \/ Retrieve \/ Preprocess \/ MergeNext \/ Restrict \/ ProcessNext \/ Finish

Spec == Init /\ [][Next]_vars

----------------------------------------------------------------------------
(* Properties of load() *)

\* the parsed dates of the date columns of a primary time series
PrimaryDates(csv) ==
    [d \in 1..(Len(csv.columns) - 4) |-> to_datetime_mdy(csv.columns[d + 4])]

\* the counter of one country on the d-th date: the sum over the source rows
\* (provinces) of that country
SourceSum(csv, country, d) ==
    LET hits == SortedSeq({k \in 1..Len(csv.rows) :
                             csv.rows[k][COUNTRY_REGION] = country})
    IN SumSkipNA([h \in 1..Len(hits) |-> csv.rows[hits[h]][csv.columns[d + 4]]])

\* the rows of a table for one country and one date
RowsOf(df, country, date) ==
    {i \in 1..Len(df.rows) : /\ df.rows[i][COUNTRY_REGION] = country
                             /\ df.rows[i][DATE_RECORDED] = date}

\* the vaccination source has a row for the country on the date
InVaccinationSource(country, date) ==
    \E j \in 1..Len(vaccinations_csv.rows) :
        /\ vaccinations_csv.rows[j]["Country_Region"] = country
        /\ to_datetime_iso(vaccinations_csv.rows[j]["Date"]) = date

\* C3: the primary load produces exactly one row per (source location row,
\* date): the row count of the primary table is (number of source rows) x
\* (number of date columns), also when several source rows share a country.
C3_RowPerLocationDate ==
    pc = "preprocess" =>
        Len(final_df.rows) = Len(confirmed_csv.rows) * (Len(confirmed_csv.columns) - 4)

\* C4: after the primary derivation the table has exactly one row per (date,
\* country), and its cumulative confirmed and deaths values are the sums of
\* those columns over all source rows sharing that (date, country).
C4_OneRowPerDateCountrySummed ==
    pc = "merge" =>
        \A k \in 1..Len(confirmed_csv.rows), d \in 1..Len(PrimaryDates(confirmed_csv)) :
            LET country == confirmed_csv.rows[k][COUNTRY_REGION]
                hits == RowsOf(final_df, country, PrimaryDates(confirmed_csv)[d])
            IN /\ Cardinality(hits) = 1
               /\ \A i \in hits :
                     /\ final_df.rows[i][CONFIRMED] = SourceSum(confirmed_csv, country, d)
                     /\ final_df.rows[i][DEATHS] = SourceSum(deaths_csv, country, d)

\* C5: end to end, for a country whose cumulative confirmed series on
\* consecutive dates is c[0..n], the table load() returns carries
\* newCases[i] = max(0, c[i] - c[i-1]) for i > 0 and null or 0 for i = 0; the
\* dataset fold and the processing chain do not alter these values.  (The
\* chain drops 'Republic of Ireland' by design; the property is stated for
\* every other country.)
C5_NewCasesEndToEnd ==
    pc = "done" =>
        \A k \in 1..Len(confirmed_csv.rows), d \in 1..Len(PrimaryDates(confirmed_csv)) :
            LET country == confirmed_csv.rows[k][COUNTRY_REGION]
                hits == RowsOf(returned, country, PrimaryDates(confirmed_csv)[d])
            IN country # "Republic of Ireland" =>
                  /\ hits # {}
                  /\ \A i \in hits :
                        IF d = 1 THEN returned.rows[i][NEW_CASES] \in {NA, 0}
                        ELSE returned.rows[i][NEW_CASES] =
                               Clip(SourceSum(confirmed_csv, country, d)
                                      - SourceSum(confirmed_csv, country, d - 1))

\* C6: absence stays null through the whole pipeline: for every (country,
\* date) pair of the primary table that the vaccination source lacks,
\* totalDoses is null (not zero) in the table load() returns.
C6_AbsentDosesStayNull ==
    pc = "done" =>
        \A i \in 1..Len(returned.rows) :
            ~InVaccinationSource(returned.rows[i][COUNTRY_REGION],
                                 returned.rows[i][DATE_RECORDED])
                => returned.rows[i][TOTAL_VACCINATIONS] = NA

\* C10: when fetching or parsing the primary source or a registered dataset
\* fails, the failure propagates out of load(): the datasets after the
\* failing one are not read or merged, the processing chain is not run, no
\* table is returned and no output file is written.
C10_FailurePropagates ==
    failure # "none" =>
        /\ pc = "raised"
        /\ returned = None
        /\ output_file = None
        /\ \A k \in (loop + 1)..Len(ADDITIONAL_DATASETS) :
              IsNone(ADDITIONAL_DATASETS[k].df)
        /\ IsNone(merged) \/ POPULATION \notin Range(merged.columns)
        /\ IsNone(final_df) \/ UNVACCINATED \notin Range(final_df.columns)

\* C12: every row of the table load() returns has a country of the primary
\* table: a country that only a registered dataset brings in never appears.
C12_OnlyPrimaryCountries ==
    pc = "done" =>
        \A i \in 1..Len(returned.rows) :
            \E k \in 1..Len(confirmed_csv.rows) :
                returned.rows[i][COUNTRY_REGION] = confirmed_csv.rows[k][COUNTRY_REGION]

\* the vaccination source brought in Ireland, which the primary source does
\* not have; the fold carried its row to the end and the returned table is
\* without it
C12_Witness ==
    /\ pc = "done"
    /\ \A k \in 1..Len(confirmed_csv.rows) :
          confirmed_csv.rows[k][COUNTRY_REGION] # "Ireland"
    /\ \E j \in 1..Len(ADDITIONAL_DATASETS[1].df.rows) :
          ADDITIONAL_DATASETS[1].df.rows[j][COUNTRY_REGION] = "Ireland"
    /\ Len(returned.rows) > 0
    /\ \A i \in 1..Len(returned.rows) : returned.rows[i][COUNTRY_REGION] # "Ireland"

\* C13: the table load() returns and writes is sorted by date in
\* non-decreasing order, whatever the datasets and the processing functions
\* did to the row order.
C13_SortedByDate ==
    pc = "done" =>
        /\ output_file = returned
        /\ \A i \in 1..(Len(returned.rows) - 1) :
              returned.rows[i][DATE_RECORDED] <= returned.rows[i + 1][DATE_RECORDED]

\* the fold left the rows of two countries country by country, out of date
\* order, and the returned table has them in date order
C13_Witness ==
    /\ pc = "done"
    /\ \E i \in 1..(Len(merged.rows) - 1) :
          merged.rows[i][DATE_RECORDED] > merged.rows[i + 1][DATE_RECORDED]
    /\ Len(returned.rows) = Len(merged.rows)
    /\ \A i \in 1..(Len(returned.rows) - 1) :
          returned.rows[i][DATE_RECORDED] <= returned.rows[i + 1][DATE_RECORDED]

\* the first dataset was merged and the second one failed: load() raised with
\* a half-merged table in hand
C10_Witness ==
    /\ pc = "raised"
    /\ failure = POPULATIONS_URL
    /\ ~IsNone(ADDITIONAL_DATASETS[1].df)
    /\ TOTAL_VACCINATIONS \in Range(merged.columns)
    /\ returned = None
    /\ output_file = None

----------------------------------------------------------------------------
(* Specification SpecDataset: one CustomDataset object, read and merged *)

\* a dataset with neither pre- nor post-processor, joined on the country
PlainDataset == CustomDataset("plain.csv", <<COUNTRY_REGION>>, "outer", "None", "None")

PlainColumns == <<COUNTRY_REGION, "Extra">>

\* the sources of the plain dataset: up to MaxLeft rows, none included
PlainTables ==
    {DF(PlainColumns,
        [i \in 1..Len(cs) |->
            [c \in Range(PlainColumns) |-> IF c = COUNTRY_REGION THEN cs[i] ELSE 10 + i]]) :
        cs \in SeqUpTo({"Ireland", "US"}, MaxLeft)}

LeftColumns == <<DATE_RECORDED, COUNTRY_REGION, CONFIRMED>>

LeftKeys == {<<c, d>> : c \in {"Ireland", "US"}, d \in {20200122, 20200123}}

\* the tables handed to merge: up to MaxLeft rows in any order of keys, each
\* row with a value of its own
LeftTables ==
    {DF(LeftColumns,
        [i \in 1..Len(ks) |->
            [c \in Range(LeftColumns) |->
                IF c = COUNTRY_REGION THEN ks[i][1]
                ELSE IF c = DATE_RECORDED THEN ks[i][2] ELSE i]]) :
        ks \in SeqUpTo(LeftKeys, MaxLeft)}

InitDs ==
    /\ pc = "ds_idle"
    /\ \E kind \in {"plain", "vaccinations", "populations"} :
          /\ custom = (CASE kind = "plain" -> PlainDataset
                         [] kind = "vaccinations" -> _get_vaccinations_dataset
                         [] kind = "populations" -> _get_populations_dataset)
          /\ plain_csv \in (IF kind = "plain" THEN PlainTables ELSE {Empty})
          /\ vaccinations_csv \in (IF kind = "vaccinations"
                                   THEN {VaccinationsCsv(m) : m \in 0..Len(IsoDates)}
                                   ELSE {Empty})
          /\ populations_csv \in (IF kind = "populations"
                                  THEN {PopulationsCsv(us) :
                                          us \in {"one", "tied", "nan", "none"}}
                                  ELSE {Empty})
    /\ confirmed_csv = Empty /\ deaths_csv = Empty /\ recovered_csv = Empty
    /\ variants_csv = Empty /\ testing_csv = Empty
    /\ arg \in LeftTables
    /\ res = Empty
    /\ call = None
    /\ n_calls = 0 /\ n_fetch = 0 /\ n_pre = 0
    /\ LoadUnused
    /\ RegUnused

\* pu.from_csv(self.path_or_url): the frame of the source, or the exception
\* of a source that cannot be fetched
Fetch(ok) == IF ok THEN from_csv(custom.path_or_url) ELSE Raised("URLError")

\* the state after a call on the object; fetched: pu.from_csv gave the source
DsDone(op, r, fetched) ==
    /\ custom' = r.self
    /\ call' = [op |-> op, right |-> r.right, joined |-> r.joined, result |-> r.result]
    /\ n_calls' = n_calls + 1
    /\ n_fetch' = n_fetch + (IF fetched THEN 1 ELSE 0)
    /\ n_pre' = n_pre + (IF fetched /\ custom.pre_processor # "None" THEN 1 ELSE 0)
    /\ pc' = "ds_called"

ReadCall(r) == [self |-> r.self, right |-> None, joined |-> None, result |-> r.result]

\* custom.read()
DsRead ==
    /\ pc \in {"ds_idle", "ds_called"}
    /\ n_calls < MaxCalls
    /\ \E ok \in (IF IsNone(custom.df) THEN BOOLEAN ELSE {TRUE}) :
          DsDone("read", ReadCall(Read(custom, Fetch(ok))), IsNone(custom.df) /\ ok)
    /\ UNCHANGED <<subVars, srcVars, loadVars, regVars>>

\* custom.merge(df)
DsMerge ==
    /\ pc \in {"ds_idle", "ds_called"}
    /\ n_calls < MaxCalls
    /\ \E ok \in (IF IsNone(custom.df) THEN BOOLEAN ELSE {TRUE}) :
          DsDone("merge", Merge(custom, arg, Fetch(ok)), IsNone(custom.df) /\ ok)
    /\ UNCHANGED <<subVars, srcVars, loadVars, regVars>>

NextDs == DsRead \/ DsMerge

SpecDataset == InitDs /\ [][NextDs]_vars

----------------------------------------------------------------------------
(* Properties of CustomDataset *)

\* the last call was merge, it read a frame and joined it
Joined ==
    /\ ~IsNone(call)
    /\ call.op = "merge"
    /\ ~IsNone(call.joined)
    /\ ~IsRaised(call.joined)

\* left row l has no right row of its key, right row r no left row
LeftUnmatched(left, right, on, l) ==
    \A r \in 1..Len(right.rows) : ~KeyEq(left.rows[l], right.rows[r], on)
RightUnmatched(left, right, on, r) ==
    \A l \in 1..Len(left.rows) : ~KeyEq(left.rows[l], right.rows[r], on)

\* row o carries row x in the columns cols and null in the columns nulls
Carries(o, x, cols, nulls) ==
    /\ \A c \in cols : c \in DOMAIN o /\ o[c] = x[c]
    /\ \A c \in nulls : c \in DOMAIN o /\ o[c] = NA

\* out is an outer join of left and right on the keys: every key tuple of
\* either side appears, and the rows without a match are kept with nulls in
\* the other side's columns
OuterJoinOf(out, left, right, on) ==
    LET lonly == Range(left.columns) \ Range(right.columns)
        ronly == Range(right.columns) \ Range(left.columns)
    IN /\ \A l \in 1..Len(left.rows) :
             \E j \in 1..Len(out.rows) : KeyEq(out.rows[j], left.rows[l], on)
       /\ \A r \in 1..Len(right.rows) :
             \E j \in 1..Len(out.rows) : KeyEq(out.rows[j], right.rows[r], on)
       /\ \A l \in 1..Len(left.rows) :
             LeftUnmatched(left, right, on, l) =>
                 \E j \in 1..Len(out.rows) :
                     Carries(out.rows[j], left.rows[l], Range(left.columns), ronly)
       /\ \A r \in 1..Len(right.rows) :
             RightUnmatched(left, right, on, r) =>
                 \E j \in 1..Len(out.rows) :
                     Carries(out.rows[j], right.rows[r], Range(right.columns), lonly)

\* C7 (original statement): merge(left) with the default join mode returns an outer
\* join on the join keys: every key tuple of left or of read()'s result is in
\* the output, and the rows without a match on the other side are kept with
\* that side's columns null.
C7_ReturnsOuterJoin ==
    (Joined /\ custom.how = "outer" /\ ~IsRaised(call.result)) =>
        OuterJoinOf(call.result, arg, call.right, custom.on)

\* C7 (amended statement): the frame merge(left) joins with the default join mode is an
\* outer join on the join keys; it is what merge returns when the dataset has
\* no post-processor, and what the post-processor is handed when it has one.
C7_JoinsOuter ==
    (Joined /\ custom.how = "outer") =>
        /\ OuterJoinOf(call.joined, arg, call.right, custom.on)
        /\ custom.post_processor = "None" => call.result = call.joined
        /\ custom.post_processor # "None" =>
              call.result = Call(custom.post_processor, call.joined)

\* a merge with rows on both sides that have no match, through a dataset
\* whose post-processor does not hand them on
C7_Witness ==
    /\ Joined
    /\ custom.post_processor # "None"
    /\ \E l \in 1..Len(arg.rows) : LeftUnmatched(arg, call.right, custom.on, l)
    /\ \E r \in 1..Len(call.right.rows) : RightUnmatched(arg, call.right, custom.on, r)
    /\ ~IsRaised(call.result)
    /\ Len(call.result.rows) < Len(call.joined.rows)

\* the dataset has no post-processor and its read() gave a frame without rows
EmptyRight ==
    /\ ~IsNone(call)
    /\ call.op = "merge"
    /\ custom.post_processor = "None"
    /\ ~IsNone(call.right)
    /\ Len(call.right.rows) = 0

\* C8: merging a table A with a dataset whose read() result has zero rows
\* (and no post-processor) returns exactly A's rows with A's values in A's
\* columns, plus the dataset's non-key columns, null in every row.
C8_EmptyRightKeepsLeft ==
    EmptyRight =>
        /\ ~IsRaised(call.result)
        /\ call.result.columns = arg.columns \o Without(call.right.columns, custom.on)
        /\ Len(call.result.rows) = Len(arg.rows)
        /\ \A i \in 1..Len(arg.rows) :
              Cardinality({j \in 1..Len(call.result.rows) :
                             Carries(call.result.rows[j], arg.rows[i],
                                     Range(arg.columns),
                                     Range(Without(call.right.columns, custom.on)))})
                = Cardinality({j \in 1..Len(arg.rows) : arg.rows[j] = arg.rows[i]})

\* a table of two rows of different countries was merged with the empty source
C8_Witness ==
    /\ EmptyRight
    /\ Len(arg.rows) = 2
    /\ arg.rows[1][COUNTRY_REGION] # arg.rows[2][COUNTRY_REGION]
    /\ Len(call.result.rows) = 2
    /\ \A j \in 1..2 : call.result.rows[j]["Extra"] = NA

\* what read() is to return: the source, pre-processed when the dataset has a
\* pre-processor
Processed(self) ==
    IF self.pre_processor = "None" THEN from_csv(self.path_or_url)
    ELSE Call(self.pre_processor, from_csv(self.path_or_url))

\* C9: for one CustomDataset object, over any sequence of read() and merge()
\* calls, the source is fetched at most once and the pre-processor is applied
\* at most once; every later read() returns the cached, already pre-processed
\* table.
C9_ReadOnceReturnsProcessed ==
    /\ n_fetch <= 1
    /\ n_pre <= 1
    /\ (~IsNone(call) /\ call.op = "read" /\ ~IsRaised(call.result)) =>
          call.result = Processed(custom)
    /\ (~IsNone(call) /\ call.op = "merge" /\ ~IsNone(call.right)) =>
          call.right = Processed(custom)

----------------------------------------------------------------------------
(* Specification SpecRegistry: data/datasets.py, the producers and merge(df) *)

MaxRuns == 2

\* datasets._get_vaccinations_dataset
_get_vaccinations_dataset_owid ==
    CustomDataset(OWID_VACCINATIONS_URL, <<COUNTRY_REGION, DATE_RECORDED>>, "outer",
                  "processor@datasets.vaccinations", "None")

\* datasets._get_variant_dataset
_get_variant_dataset ==
    CustomDataset(VARIANT_DATA, <<COUNTRY_REGION, DATE_RECORDED>>, "outer",
                  "processor@variants", "None")

\* datasets._get_testing_dataset
_get_testing_dataset ==
    CustomDataset(TESTING_DATA, <<COUNTRY_REGION, DATE_RECORDED>>, "outer",
                  "processor@testing", "None")

\* the functions under @Producer, in the order of the module
Producers ==
    <<"_get_vaccinations_dataset", "_get_populations_dataset",
      "_get_variant_dataset", "_get_testing_dataset">>

\* func(): the body of a producer
Produce(func) ==
    CASE func = "_get_vaccinations_dataset" -> _get_vaccinations_dataset_owid
      [] func = "_get_populations_dataset" -> _get_populations_dataset
      [] func = "_get_variant_dataset" -> _get_variant_dataset
      [] func = "_get_testing_dataset" -> _get_testing_dataset

\* the object an earlier call of func has made, if there is one
custom_cached(func, made) ==
    IF \E k \in 1..Len(made) : made[k].func = func
    THEN made[CHOOSE k \in 1..Len(made) :
                 /\ made[k].func = func
                 /\ \A j \in (k + 1)..Len(made) : made[j].func # func].dataset
    ELSE Produce(func)

\* dataset = custom() in merge: the producer builds a new object, whatever
\* objects (made) its earlier calls have built
custom_call(func, made) == Produce(func)

OwidColumns ==
    <<"location", "date", "total_vaccinations", "people_vaccinated",
      FULLY_VACCINATED, TOTAL_BOOSTERS, BOOSTERS_PER_HUNDRED>>

OwidRow(location, date, total, people, fully) ==
    [c \in Range(OwidColumns) |->
        IF c = "location" THEN location
        ELSE IF c = "date" THEN date
        ELSE IF c = "total_vaccinations" THEN total
        ELSE IF c = "people_vaccinated" THEN people
        ELSE IF c = FULLY_VACCINATED THEN fully
        ELSE NA]

\* the vaccination source of datasets.py
OwidVaccinationsCsv ==
    DF(OwidColumns, <<OwidRow("United States", IsoDates[1], 3, 2, 1),
                      OwidRow("Ireland", IsoDates[2], 1, 1, NA)>>)

VariantColumns ==
    <<"location", "date", "variant", "num_sequences", "perc_sequences",
      "num_sequences_total">>

VariantRow(location, date, variant, num) ==
    [c \in Range(VariantColumns) |->
        IF c = "location" THEN location
        ELSE IF c = "date" THEN date
        ELSE IF c = "variant" THEN variant
        ELSE IF c = "num_sequences" THEN num
        ELSE IF c = "perc_sequences" THEN 50 * num
        ELSE 2]

\* the variant source
VariantsCsv ==
    DF(VariantColumns, <<VariantRow("Ireland", IsoDates[1], "Alpha", 1),
                         VariantRow("Ireland", IsoDates[1], "B.1.1.277", 1),
                         VariantRow("United States", IsoDates[2], "non_who", 2)>>)

TestingColumns ==
    <<"Entity", "Date", "Cumulative total", "Daily change in cumulative total",
      "Short-term positive rate">>

TestingRow(entity, date, total) ==
    [c \in Range(TestingColumns) |->
        IF c = "Entity" THEN entity
        ELSE IF c = "Date" THEN date
        ELSE IF c = "Cumulative total" THEN total
        ELSE NA]

\* the testing source; dashed: every entity is written 'country - what'
TestingCsv(dashed) ==
    DF(TestingColumns,
       <<TestingRow("United States - tests performed", IsoDates[1], 4),
         TestingRow(IF dashed THEN "Ireland - tests performed" ELSE "Ireland",
                    IsoDates[1], 2)>>)

InitReg ==
    /\ pc = "import"
    /\ confirmed_csv = Empty /\ deaths_csv = Empty /\ recovered_csv = Empty
    /\ plain_csv = Empty
    /\ vaccinations_csv = OwidVaccinationsCsv
    /\ populations_csv \in {PopulationsCsv("one"), PopulationsCsv("nan")}
    /\ variants_csv = VariantsCsv
    /\ testing_csv \in {TestingCsv(d) : d \in BOOLEAN}
    /\ arg \in LeftTables
    /\ res = Empty
    /\ LoadUnused
    /\ DsUnused
    /\ RegUnused

\* Producer.__init__ of the next decorated function, while the module is
\* imported
Producer ==
    /\ pc = "import"
    /\ custom_datasets' = Append(custom_datasets, Producers[Len(custom_datasets) + 1])
    /\ pc' = IF Len(custom_datasets') = Len(Producers) THEN "reg_idle" ELSE "import"
    /\ UNCHANGED <<instances, events, run, subVars, srcVars, loadVars, dsVars>>

\* merge(df) is called
RegMerge ==
    /\ pc \in {"reg_idle", "reg_done", "reg_raised"}
    /\ run < MaxRuns
    /\ run' = run + 1
    /\ merged' = arg
    /\ loop' = 1
    /\ returned' = None
    /\ failure' = "none"
    /\ pc' = "reg_fold"
    /\ UNCHANGED <<custom_datasets, instances, events, subVars, srcVars, dsVars,
                   output_file, ADDITIONAL_PROCESSORS, ADDITIONAL_DATASETS, final_df>>

\* one round of the loop once dataset.merge(df) has given r: the object and
\* what the round did are recorded, and df takes the result or the
\* exception leaves merge
RegRound(func, dataset, r, fetched) ==
    /\ instances' = Append(instances, [func |-> func, dataset |-> r.self])
    /\ events' = Append(events, [run |-> run, func |-> func,
                                 path |-> dataset.path_or_url,
                                 fresh |-> IsNone(dataset.df),
                                 fetched |-> fetched,
                                 raised |-> IsRaised(r.result)])
    /\ IF IsRaised(r.result)
       THEN /\ failure' = r.result.raised
            /\ pc' = "reg_raised"
            /\ UNCHANGED <<merged, loop>>
       ELSE /\ merged' = r.result
            /\ loop' = loop + 1
            /\ UNCHANGED <<failure, pc>>

RegFetch(dataset, ok) ==
    IF ok THEN from_csv(dataset.path_or_url) ELSE Raised("URLError")

RegCall(func, dataset, ok) ==
    RegRound(func, dataset, Merge(dataset, merged, RegFetch(dataset, ok)),
             IsNone(dataset.df) /\ ok)

\* for custom in custom_datasets: dataset = custom(); df = dataset.merge(df)
RegMergeNext ==
    /\ pc = "reg_fold"
    /\ loop <= Len(custom_datasets)
    /\ \E ok \in BOOLEAN :
          RegCall(custom_datasets[loop],
                  custom_call(custom_datasets[loop], instances), ok)
    /\ UNCHANGED <<custom_datasets, run, returned, subVars, srcVars, dsVars,
                   output_file, ADDITIONAL_PROCESSORS, ADDITIONAL_DATASETS, final_df>>

\* return df
RegMergeReturn ==
    /\ pc = "reg_fold"
    /\ loop > Len(custom_datasets)
    /\ returned' = merged
    /\ pc' = "reg_done"
    /\ UNCHANGED <<custom_datasets, instances, events, run, merged, loop, failure,
                   subVars, srcVars, dsVars,
                   output_file, ADDITIONAL_PROCESSORS, ADDITIONAL_DATASETS, final_df>>

NextReg == Producer \/ RegMerge \/ RegMergeNext \/ RegMergeReturn

SpecRegistry == InitReg /\ [][NextReg]_vars

----------------------------------------------------------------------------
(* Properties of the registry *)

\* what run k of merge did, in order
RunEvents(k) == SelectSeq(events, LAMBDA e : e.run = k)

\* run k went through the whole loop
RunComplete(k) ==
    /\ Len(RunEvents(k)) = Len(Producers)
    /\ \A i \in 1..Len(RunEvents(k)) : ~RunEvents(k)[i].raised

\* C11: every run of datasets.merge calls the registered producers once
\* each, in the order of registration, and merges the object the call has
\* just made, never one of an earlier run; a run that goes through the whole
\* loop fetches every source exactly once, so two runs fetch each twice
C11_RunCallsEachProducerOnce ==
    /\ \A k \in 1..run :
          /\ Len(RunEvents(k)) <= Len(custom_datasets)
          /\ \A i \in 1..Len(RunEvents(k)) :
                /\ RunEvents(k)[i].func = custom_datasets[i]
                /\ RunEvents(k)[i].fresh
          /\ RunComplete(k) =>
                \A i \in 1..Len(RunEvents(k)) :
                   /\ RunEvents(k)[i].fetched
                   /\ \A j \in 1..Len(RunEvents(k)) :
                         RunEvents(k)[j].path = RunEvents(k)[i].path => j = i
    /\ pc = "reg_done" => RunComplete(run)
    /\ pc \in {"reg_idle", "reg_fold", "reg_done", "reg_raised"} =>
          custom_datasets = Producers

\* two runs have gone through the whole loop
C11_Witness ==
    /\ pc = "reg_done"
    /\ run = 2
    /\ RunComplete(1) /\ RunComplete(2)
    /\ Len(events) = 2 * Len(Producers)
    /\ ~IsRaised(returned) /\ Len(returned.rows) > 0

----------------------------------------------------------------------------
(* Specification SpecAgg: DataFrame.group_aggregate(group_by, avg) *)

AggColumns == <<"Province/State", COUNTRY_REGION, CONFIRMED, DEATHS>>

\* row i of a table: a province (text), a country, a count that may be
\* missing, and a second count that is missing on the second row
AggRow(i, country, confirmed) ==
    [c \in Range(AggColumns) |->
        IF c = "Province/State" THEN "Cork"
        ELSE IF c = COUNTRY_REGION THEN country
        ELSE IF c = CONFIRMED THEN confirmed
        ELSE IF i = 2 THEN NA ELSE i]

AggTables ==
    {DF(AggColumns, [i \in 1..Len(cs) |-> AggRow(i, cs[i][1], cs[i][2])]) :
        cs \in SeqUpTo({"Ireland", "US"} \X ((1..MaxVal) \cup {NA}), MaxAggRows)}

AggKeys == {<<COUNTRY_REGION>>, <<COUNTRY_REGION, CONFIRMED>>}

InitAgg ==
    /\ pc = "agg_idle"
    /\ arg \in AggTables
    /\ call \in [group_by : AggKeys, avg : BOOLEAN]
    /\ res = Empty
    /\ NoSources
    /\ LoadUnused
    /\ custom = None
    /\ n_calls = 0 /\ n_fetch = 0 /\ n_pre = 0
    /\ RegUnused

\* res = arg.group_aggregate(group_by, avg)
GroupAggregate ==
    /\ pc = "agg_idle"
    /\ res' = group_aggregate(arg, call.group_by, call.avg)
    /\ pc' = "agg_done"
    /\ UNCHANGED <<arg, call, custom, n_calls, n_fetch, n_pre, srcVars, loadVars, regVars>>

NextAgg == GroupAggregate

SpecAgg == InitAgg /\ [][NextAgg]_vars

----------------------------------------------------------------------------
(* Properties of group_aggregate *)

\* no two rows of df have the same key tuple, and no key cell is missing
UniqueKeys(df, keys) ==
    /\ \A i \in 1..Len(df.rows) : ~KeyNA(df.rows[i], keys)
    /\ \A i, j \in 1..Len(df.rows) : KeyEq(df.rows[i], df.rows[j], keys) => i = j

\* C14: on a table whose key tuples are unique, group_aggregate(keys) gives
\* the rows of the table with the values they had, missing cells included
\* (compared on the columns the result has), and applying it to its own
\* result changes nothing
C14_IdempotentOnUniqueKeys ==
    (pc = "agg_done" /\ ~call.avg /\ UniqueKeys(arg, call.group_by)) =>
        /\ Len(res.rows) = Len(arg.rows)
        /\ \A i \in 1..Len(arg.rows) :
              \E g \in 1..Len(res.rows) :
                 \A c \in Range(res.columns) : res.rows[g][c] = arg.rows[i][c]
        /\ group_aggregate(res, call.group_by, FALSE) = res

\* the rows of df with the key tuple of row
GroupOf(df, row, keys) == {i \in 1..Len(df.rows) : KeyEq(df.rows[i], row, keys)}

RECURSIVE TotalOver(_, _, _)
\* the total of column c over the rows S, missing cells left out
TotalOver(rows, S, c) ==
    IF S = {} THEN 0
    ELSE LET i == CHOOSE x \in S : TRUE
         IN (IF rows[i][c] = NA THEN 0 ELSE rows[i][c]) + TotalOver(rows, S \ {i}, c)

PresentIn(rows, S, c) == {i \in S : rows[i][c] # NA}

\* the result has the key columns and the number columns only, and every
\* cell of a number column is the sum of its group (avg false) or its mean
\* (avg true; no value when the group has none)
AggregatesGroups ==
    /\ Range(res.columns) = Range(arg.columns) \ (NonNumeric \ Range(call.group_by))
    /\ \A g \in 1..Len(res.rows) :
          /\ GroupOf(arg, res.rows[g], call.group_by) # {}
          /\ \A h \in 1..Len(res.rows) :
                KeyEq(res.rows[g], res.rows[h], call.group_by) => g = h
          /\ \A c \in Range(res.columns) \ Range(call.group_by) :
                LET S == GroupOf(arg, res.rows[g], call.group_by)
                IN IF ~call.avg THEN res.rows[g][c] = TotalOver(arg.rows, S, c)
                   ELSE IF PresentIn(arg.rows, S, c) = {} THEN res.rows[g][c] = NA
                   ELSE res.rows[g][c] * Cardinality(PresentIn(arg.rows, S, c))
                            = TotalOver(arg.rows, S, c) * MeanScale

\* C15: group_aggregate gives exactly one row for each
\* distinct key tuple of the table, its number columns summed or averaged
\* over the group, and no text column that is not a key
C15_OneRowPerKeyTuple ==
    pc = "agg_done" =>
        /\ AggregatesGroups
        /\ \A i \in 1..Len(arg.rows) :
              \E g \in 1..Len(res.rows) : KeyEq(res.rows[g], arg.rows[i], call.group_by)

\* what group_aggregate does give: exactly one row for each distinct key
\* tuple that has no missing component, and none for the others
OneRowPerFullKeyTuple ==
    pc = "agg_done" =>
        /\ AggregatesGroups
        /\ \A i \in 1..Len(arg.rows) :
              KeyNA(arg.rows[i], call.group_by)
                 <=> ~\E g \in 1..Len(res.rows) :
                        KeyEq(res.rows[g], arg.rows[i], call.group_by)

----------------------------------------------------------------------------
(* Specification SpecFill: DataFrame.fill_required *)

MaxFillRows == 2

\* the column lists of the frames fill_required is called on: a daily report
\* names the country Country_Region or Country/Region
FillColumnLists ==
    {<<"Country_Region", CONFIRMED, "Lat">>, <<COUNTRY_REGION, DEATHS>>,
     <<"Lat", CONFIRMED, DEATHS, COUNTRY_REGION>>, <<"Lat">>, <<>>}

\* a frame of n rows over the columns cols, every cell with a value of its own
FillTable(cols, n) ==
    DF(cols, [i \in 1..n |->
                 [c \in Range(cols) |->
                     10 * i + (CHOOSE k \in 1..Len(cols) : cols[k] = c)]])

FillRequired ==
    {<<COUNTRY_REGION, CONFIRMED, DEATHS>>, <<DEATHS, COUNTRY_REGION>>,
     <<CONFIRMED>>, <<>>}

\* rename_mapper: None, the mapper of the daily reports, and one that names
\* a column as another required one
FillMappers ==
    {None, [c \in {"Country_Region"} |-> COUNTRY_REGION],
     [c \in {"Lat", "Long"} |-> IF c = "Lat" THEN DEATHS ELSE "Lon"]}

\* the name of column c after rename(columns=mapper)
RenamedAs(c, mapper) ==
    IF IsNone(mapper) THEN c
    ELSE IF c \in DOMAIN mapper THEN mapper[c] ELSE c

\* rename gives no two columns one name
NoClash(cols, mapper) ==
    \A a, b \in 1..Len(cols) :
        RenamedAs(cols[a], mapper) = RenamedAs(cols[b], mapper) => a = b

InitFill ==
    /\ pc = "fill_idle"
    /\ \E cols \in FillColumnLists, n \in 0..MaxFillRows : arg = FillTable(cols, n)
    /\ call \in [required_fields : FillRequired, rename_mapper : FillMappers]
    /\ NoClash(arg.columns, call.rename_mapper)
    /\ res = Empty
    /\ NoSources
    /\ LoadUnused
    /\ custom = None
    /\ n_calls = 0 /\ n_fetch = 0 /\ n_pre = 0
    /\ RegUnused

\* res = arg.fill_required(required_fields, rename_mapper)
FillRequiredCall ==
    /\ pc = "fill_idle"
    /\ res' = fill_required(arg, call.required_fields, call.rename_mapper)
    /\ pc' = "fill_done"
    /\ UNCHANGED <<arg, call, custom, n_calls, n_fetch, n_pre, srcVars, loadVars, regVars>>

NextFill == FillRequiredCall

SpecFill == InitFill /\ [][NextFill]_vars

----------------------------------------------------------------------------
(* Properties of fill_required *)

\* the columns of arg that the mapper names c
SourcesOf(c) ==
    {o \in Range(arg.columns) : RenamedAs(o, call.rename_mapper) = c}

\* C16: fill_required renames first and then returns a table whose columns
\* are exactly the required ones: a required column that the renamed table
\* has keeps its values, one that it lacks is all missing, and no other
\* column is in the result
C16_ExactlyRequiredColumns ==
    pc = "fill_done" =>
        /\ Len(res.columns) = Len(call.required_fields)
        /\ Range(res.columns) = Range(call.required_fields)
        /\ Len(res.rows) = Len(arg.rows)
        /\ \A i \in 1..Len(res.rows) :
              /\ DOMAIN res.rows[i] = Range(call.required_fields)
              /\ \A c \in Range(call.required_fields) :
                    IF SourcesOf(c) = {} THEN res.rows[i][c] = NA
                    ELSE \A o \in SourcesOf(c) : res.rows[i][c] = arg.rows[i][o]

\* a call whose mapper gives one required column its name, with another
\* required column missing and a column of the table not required
C16_Witness ==
    /\ pc = "fill_done"
    /\ ~IsNone(call.rename_mapper)
    /\ Len(res.rows) > 0
    /\ \E c \in Range(call.required_fields) :
          \E o \in SourcesOf(c) : o # c /\ res.rows[1][c] = arg.rows[1][o]
    /\ \E c \in Range(call.required_fields) :
          SourcesOf(c) = {} /\ res.rows[1][c] = NA
    /\ \E o \in Range(arg.columns) :
          RenamedAs(o, call.rename_mapper) \notin Range(res.columns)

----------------------------------------------------------------------------
(* Specification SpecReplace: DataFrame.replace_rows *)

MaxReplRows == 3

ReplColumns == <<CONFIRMED, DEATHS>>

\* a frame over columns cols: the cells of CONFIRMED as given, every cell of
\* DEATHS with a value of its own (from base on)
ReplTable(cols, confirmed, base) ==
    DF(cols, [i \in 1..Len(confirmed) |->
                 [c \in Range(cols) |-> IF c = CONFIRMED THEN confirmed[i] ELSE base + i]])

\* the frames replace_rows is called on
ReplTargets ==
    {ReplTable(ReplColumns, cs, 10) : cs \in SeqUpTo({1, 2}, MaxReplRows)}

\* the replacement frames: the columns of the target in its order or in the
\* other one, and cells of CONFIRMED that may be missing
Replacements ==
    {ReplTable(cols, cs, 20) :
        cols \in {ReplColumns, <<DEATHS, CONFIRMED>>},
        cs \in SeqUpTo({1, 2, NA}, MaxReplRows)}

InitRepl ==
    /\ pc = "repl_idle"
    /\ arg \in ReplTargets
    /\ call \in [column : {CONFIRMED}, value : {1, 2}, replacement : Replacements,
                 broadcasts : BOOLEAN, skips_empty : BOOLEAN]
    /\ res = Empty
    /\ NoSources
    /\ LoadUnused
    /\ custom = None
    /\ n_calls = 0 /\ n_fetch = 0 /\ n_pre = 0
    /\ RegUnused

\* arg.replace_rows(column, value, replacement): res holds the frame after
\* the call and what the call returned or raised
ReplaceRows ==
    /\ pc = "repl_idle"
    /\ res' = replace_rows(arg, call.column, call.value, call.replacement,
                           call.broadcasts, call.skips_empty)
    /\ pc' = "repl_done"
    /\ UNCHANGED <<arg, call, custom, n_calls, n_fetch, n_pre, srcVars, loadVars, regVars>>

NextRepl == ReplaceRows

SpecReplace == InitRepl /\ [][NextRepl]_vars

----------------------------------------------------------------------------
(* Properties of replace_rows *)

\* the rows of the target that have the value in the column, in row order
Matching == SortedSeq({i \in 1..Len(arg.rows) : arg.rows[i][call.column] = call.value})

\* a row of the replacement has another value (or none) in the column
OtherValues ==
    \E j \in 1..Len(call.replacement.rows) :
        call.replacement.rows[j][call.column] # call.value

\* C17: replace_rows raises when a row of the replacement has a value in
\* the column that is not the given one, and leaves the target as it was
C17_RaisesOnOtherValues ==
    (pc = "repl_done" /\ OtherValues) =>
        /\ IsRaised(res.result)
        /\ res.result.raised = "ValueError"
        /\ res.df = arg

\* a refused replacement that has as many rows as the target has matching
\* ones, so that the write would have gone through
C17_Witness ==
    /\ pc = "repl_done"
    /\ OtherValues
    /\ Len(Matching) > 0
    /\ Len(call.replacement.rows) = Len(Matching)
    /\ IsRaised(res.result)
    /\ res.df = arg

\* C18: after a replace_rows that did not raise, called with as many
\* replacement rows as the target has matching ones, the matching rows of
\* the target hold, in order, the rows of the replacement, every other row
\* is where and what it was, and the number of rows is the same
C18_MatchingRowsReplaced ==
    (pc = "repl_done" /\ ~IsRaised(res.result)
        /\ Len(call.replacement.rows) = Len(Matching)) =>
        /\ Len(res.df.rows) = Len(arg.rows)
        /\ \A i \in 1..Len(arg.rows) :
              arg.rows[i][call.column] # call.value => res.df.rows[i] = arg.rows[i]
        /\ \A p \in 1..Len(Matching) :
              res.df.rows[Matching[p]] = call.replacement.rows[p]

----------------------------------------------------------------------------
(* Specification SpecColumn: DataFrame.create_column *)

MaxColRows == 2

\* the frames create_column is called on
ColTables ==
    {DF(<<CONFIRMED, DEATHS>>,
        [i \in 1..n |-> [c \in {CONFIRMED, DEATHS} |-> IF c = CONFIRMED THEN i ELSE 10 + i]]) :
        n \in 0..MaxColRows}

\* the data for a frame of n rows: pd.NA (the default), a number, or a list
\* with a value for each row
ColData(n) ==
    {[kind |-> "scalar", v |-> <<NA>>], [kind |-> "scalar", v |-> <<7>>],
     [kind |-> "list", v |-> [i \in 1..n |-> 20 + i]]}

InitCol ==
    /\ pc = "col_idle"
    /\ arg \in ColTables
    /\ \E data \in ColData(Len(arg.rows)), callable \in BOOLEAN,
          column_name \in {CONFIRMED, DEATHS, "Week"}, overwrite \in BOOLEAN :
          call = [column_name |-> column_name,
                  data_or_producer_func |-> [callable |-> callable, gives |-> data],
                  overwrite |-> overwrite]
    /\ res = Empty
    /\ NoSources
    /\ LoadUnused
    /\ custom = None
    /\ n_calls = 0 /\ n_fetch = 0 /\ n_pre = 0
    /\ RegUnused

\* arg.create_column(column_name, data_or_producer_func, overwrite=overwrite)
CreateColumn ==
    /\ pc = "col_idle"
    /\ res' = create_column(arg, call.column_name, call.data_or_producer_func,
                            call.overwrite)
    /\ pc' = "col_done"
    /\ UNCHANGED <<arg, call, custom, n_calls, n_fetch, n_pre, srcVars, loadVars, regVars>>

NextCol == CreateColumn

SpecColumn == InitCol /\ [][NextCol]_vars

----------------------------------------------------------------------------
(* Properties of create_column *)

\* the cell the data has for row i
DataCell(data, i) == IF data.kind = "list" THEN data.v[i] ELSE data.v[1]

\* C19: create_column fails when the column exists and overwrite is false,
\* without calling the producer and without changing the table; in every
\* other call a producer is called exactly once and the column holds the
\* value produced (or the data given), the other columns as they were
C19_FailsWithoutProducing ==
    pc = "col_done" =>
        IF call.column_name \in Range(arg.columns) /\ ~call.overwrite
        THEN /\ IsRaised(res.result)
             /\ res.produced = 0
             /\ res.df = arg
        ELSE /\ ~IsRaised(res.result)
             /\ res.produced = (IF call.data_or_producer_func.callable THEN 1 ELSE 0)
             /\ call.column_name \in Range(res.df.columns)
             /\ Len(res.df.rows) = Len(arg.rows)
             /\ \A i \in 1..Len(arg.rows) :
                   /\ res.df.rows[i][call.column_name]
                         = DataCell(call.data_or_producer_func.gives, i)
                   /\ \A c \in Range(arg.columns) \ {call.column_name} :
                         res.df.rows[i][c] = arg.rows[i][c]

\* a refused call with a producer, on a table that has rows
C19_Witness ==
    /\ pc = "col_done"
    /\ call.column_name \in Range(arg.columns)
    /\ ~call.overwrite
    /\ call.data_or_producer_func.callable
    /\ Len(arg.rows) > 0
    /\ IsRaised(res.result)
    /\ res.produced = 0

----------------------------------------------------------------------------
(* Specification SpecMetrics: calculate_population_metrics(df) *)

MaxMetricRows == 2

MetricColumns ==
    <<COUNTRY_REGION, NEW_CASES, NEW_DEATHS, FULLY_VACCINATED, POPULATION>>

\* one row: the new cases and deaths of a day, the people vaccinated and
\* the population, each possibly missing
MetricRow(cases, fully, population) ==
    [c \in Range(MetricColumns) |->
        IF c = COUNTRY_REGION THEN "Ireland"
        ELSE IF c = NEW_CASES THEN cases
        ELSE IF c = NEW_DEATHS THEN cases
        ELSE IF c = FULLY_VACCINATED THEN fully
        ELSE population]

\* the frames handed to calculate_population_metrics: populations missing,
\* zero and positive, and one frame without the population column
MetricTables ==
    {DF(MetricColumns, [i \in 1..Len(rs) |-> MetricRow(rs[i][1], rs[i][2], rs[i][3])]) :
        rs \in SeqUpTo({NA, 0, 1} \X {NA, 0, 1} \X {NA, 0, 1000}, MaxMetricRows)}
    \cup {DF(<<COUNTRY_REGION, NEW_CASES>>,
             <<[c \in {COUNTRY_REGION, NEW_CASES} |->
                  IF c = COUNTRY_REGION THEN "Ireland" ELSE 1]>>)}

InitMetrics ==
    /\ pc = "met_idle"
    /\ arg \in MetricTables
    /\ res = Empty
    /\ NoSources
    /\ LoadUnused
    /\ DsUnused
    /\ RegUnused

\* res = calculate_population_metrics(arg)
CalculatePopulationMetrics ==
    /\ pc = "met_idle"
    /\ res' = calculate_population_metrics(arg)
    /\ pc' = "met_done"
    /\ UNCHANGED <<arg, srcVars, loadVars, dsVars, regVars>>

NextMetrics == CalculatePopulationMetrics

SpecMetrics == InitMetrics /\ [][NextMetrics]_vars

----------------------------------------------------------------------------
(* Properties of calculate_population_metrics *)

\* the fields worked out from the population: two per head, one a percentage
PerCapitaFields == {CASES_PER_THOUSAND, DEATHS_PER_THOUSAND, PERCENTAGE_VACCINATED}

\* C20: calculate_population_metrics does not raise on a frame with rows
\* whose population is missing or zero; on such a row every per-head and
\* percentage field is missing or not a finite number; and no result has the
\* population column
C20_NoRaiseOnNullOrZeroPopulation ==
    pc = "met_done" =>
        /\ POPULATION \in Range(arg.columns) => ~IsRaised(res)
        /\ ~IsRaised(res) =>
              /\ POPULATION \notin Range(res.columns)
              /\ Len(res.rows) = Len(arg.rows)
              /\ \A i \in 1..Len(res.rows) :
                    /\ POPULATION \notin DOMAIN res.rows[i]
                    /\ arg.rows[i][POPULATION] \in {NA, 0} =>
                          \A f \in PerCapitaFields : res.rows[i][f] \in {NA, INF}

\* a frame with a row of population zero that has cases and a row whose
\* population is missing
C20_Witness ==
    /\ pc = "met_done"
    /\ ~IsRaised(res)
    /\ \E i \in 1..Len(arg.rows) :
          /\ arg.rows[i][POPULATION] = 0
          /\ arg.rows[i][NEW_CASES] = 1
          /\ res.rows[i][CASES_PER_THOUSAND] = INF
    /\ \E i \in 1..Len(arg.rows) :
          /\ arg.rows[i][POPULATION] = NA
          /\ arg.rows[i][NEW_CASES] = 1
          /\ res.rows[i][CASES_PER_THOUSAND] = NA

----------------------------------------------------------------------------
(* app/transformations.py: map_counts_to_categorical *)

RECURSIVE PyMax(_, _)
\* Python's max() over the values vs, cur being the largest so far: a value
\* replaces cur only when `value > cur` holds, which it never does when
\* either is NaN
PyMax(cur, vs) ==
    IF vs = <<>> THEN cur
    ELSE PyMax(IF cur # NA /\ Head(vs) # NA /\ Head(vs) > cur THEN Head(vs) ELSE cur,
               Tail(vs))

RECURSIVE MaxSkipNA(_)
\* Series.max() with skipna: the largest cell that is not NA, NA when there
\* is none
MaxSkipNA(vs) ==
    IF vs = <<>> THEN NA
    ELSE LET rest == MaxSkipNA(Tail(vs))
         IN IF Head(vs) = NA THEN rest
            ELSE IF rest = NA THEN Head(vs)
            ELSE IF Head(vs) > rest THEN Head(vs) ELSE rest

\* df1.groupby(group_by)[field].max(): the largest cell of each group, the
\* groups in key order, rows with a missing key left out.  group_by is the
\* selection base: the Type column that the code adds to the key has one
\* value in df1
GroupMax(df1, group_by, field) ==
    LET rows == df1.rows
        kept == {i \in 1..Len(rows) : ~KeyNA(rows[i], group_by)}
        firsts == {i \in kept : \A j \in kept : j < i => ~KeyEq(rows[i], rows[j], group_by)}
        order == OrderBy(rows, firsts, group_by)
        members(i) == SortedSeq({j \in kept : KeyEq(rows[i], rows[j], group_by)})
    IN [g \in 1..Len(order) |->
           MaxSkipNA([m \in 1..Len(members(order[g])) |->
                         rows[members(order[g])[m]][field]])]

\* keep_max once the maxima of the groups are known: max() of no group
\* raises ValueError
KeepMaxOf(df1, field, maxima) ==
    IF maxima = <<>> THEN Raised("ValueError")
    ELSE DF(df1.columns,
            Filter(df1.rows,
                   {i \in 1..Len(df1.rows) :
                       /\ df1.rows[i][field] # NA
                       /\ df1.rows[i][field] = PyMax(Head(maxima), Tail(maxima))}))

\* keep_max(df1, group_by, field)
keep_max(df1, group_by, field) == KeepMaxOf(df1, field, GroupMax(df1, group_by, field))

\* label_mappings.get(label, label)
LabelOf(label_mappings, label) ==
    IF label \in DOMAIN label_mappings THEN label_mappings[label] ELSE label

\* the frame of one column: df[selection_base + [column]], the column
\* renamed to Count and the label added as Type
SubFrame(df, selection_base, column, label_mappings) ==
    DF(selection_base \o <<"Count", "Type">>,
       [i \in 1..Len(df.rows) |->
           [c \in Range(selection_base) \cup {"Count", "Type"} |->
               IF c = "Count" THEN df.rows[i][column]
               ELSE IF c = "Type" THEN LabelOf(label_mappings, column)
               ELSE df.rows[i][c]]])

\* the frame of one column as it is appended: after keep_max if asked for
Kept(subdf, selection_base, keep_max_value) ==
    IF keep_max_value THEN keep_max(subdf, selection_base, "Count") ELSE subdf

RECURSIVE AppendAll(_, _)
\* main_df = main_df.append(df1) for each frame of dfs; an exception of
\* keep_max leaves the function
AppendAll(main_df, dfs) ==
    IF IsRaised(main_df) \/ dfs = <<>> THEN main_df
    ELSE IF IsRaised(Head(dfs)) THEN Head(dfs)
    ELSE AppendAll(DF(main_df.columns, main_df.rows \o Head(dfs).rows), Tail(dfs))

\* map_counts_to_categorical from main_df = dataframes[0][0] on
Categorical(frames, selection_base) ==
    IF IsRaised(AppendAll(Head(frames), Tail(frames)))
    THEN AppendAll(Head(frames), Tail(frames))
    ELSE drop_duplicates_last(AppendAll(Head(frames), Tail(frames)),
                              selection_base \o <<"Type">>)

\* map_counts_to_categorical(df, selection_base, columns, label_mappings,
\* keep_max_value); label_mappings None is the empty mapping
map_counts_to_categorical(df, selection_base, columns, label_mappings, keep_max_value) ==
    IF columns = <<>> THEN Raised("IndexError")
    ELSE Categorical([k \in 1..Len(columns) |->
                         Kept(SubFrame(df, selection_base, columns[k],
                                       IF IsNone(label_mappings) THEN <<>>
                                       ELSE label_mappings),
                              selection_base, keep_max_value)],
                     selection_base)

----------------------------------------------------------------------------
(* Specification SpecCat: map_counts_to_categorical *)

MaxCatRows == 3

CatColumns == <<COUNTRY_REGION, DATE_RECORDED, NEW_CASES, NEW_DEATHS>>

\* row i of a table: a country on the one day of the table, its new cases
\* (possibly missing) and a count of its own
CatRow(i, country, cases) ==
    [c \in Range(CatColumns) |->
        IF c = COUNTRY_REGION THEN country
        ELSE IF c = DATE_RECORDED THEN 20200122
        ELSE IF c = NEW_CASES THEN cases
        ELSE i]

CatTables ==
    {DF(CatColumns, [i \in 1..Len(rs) |-> CatRow(i, rs[i][1], rs[i][2])]) :
        rs \in SeqUpTo({"Ireland", "US"} \X {1, 2, NA}, MaxCatRows)}

InitCat ==
    /\ pc = "cat_idle"
    /\ arg \in CatTables
    /\ call \in [selection_base : {<<COUNTRY_REGION, DATE_RECORDED>>},
                 columns : {<<NEW_CASES>>, <<NEW_CASES, NEW_DEATHS>>},
                 label_mappings : {None, [c \in {NEW_CASES} |-> "Cases"]},
                 keep_max_value : BOOLEAN]
    /\ res = Empty
    /\ NoSources
    /\ LoadUnused
    /\ custom = None
    /\ n_calls = 0 /\ n_fetch = 0 /\ n_pre = 0
    /\ RegUnused

\* res = map_counts_to_categorical(arg, ...)
MapCountsToCategorical ==
    /\ pc = "cat_idle"
    /\ res' = map_counts_to_categorical(arg, call.selection_base, call.columns,
                                        call.label_mappings, call.keep_max_value)
    /\ pc' = "cat_done"
    /\ UNCHANGED <<arg, call, custom, n_calls, n_fetch, n_pre, srcVars, loadVars, regVars>>

NextCat == MapCountsToCategorical

SpecCat == InitCat /\ [][NextCat]_vars

----------------------------------------------------------------------------
(* Properties of map_counts_to_categorical *)

\* the label of a value column in this call
TypeOf(column) ==
    IF ~IsNone(call.label_mappings) /\ column \in DOMAIN call.label_mappings
    THEN call.label_mappings[column]
    ELSE column

\* the rows of arg with the key tuple of row i
SameKey(i) ==
    {j \in 1..Len(arg.rows) : KeyEq(arg.rows[j], arg.rows[i], call.selection_base)}

\* a row of the result with the key tuple of row i of arg, the label of the
\* column and the count v
HasRow(i, column, v) ==
    \E g \in 1..Len(res.rows) :
        /\ KeyEq(res.rows[g], arg.rows[i], call.selection_base)
        /\ res.rows[g]["Type"] = TypeOf(column)
        /\ res.rows[g]["Count"] = v

\* C21: with keep_max_value set, map_counts_to_categorical keeps for every
\* (key tuple, Type) group of the input the rows with that group's own
\* largest Count: every group that has a Count has a row in the result, and
\* that row has the largest Count of the group
C21_KeepsMaxOfEveryGroup ==
    (pc = "cat_done" /\ call.keep_max_value /\ ~IsRaised(res)) =>
        /\ \A i \in 1..Len(arg.rows) :
              \A k \in 1..Len(call.columns) :
                 (\E j \in SameKey(i) : arg.rows[j][call.columns[k]] # NA) =>
                    \E j \in SameKey(i) :
                       /\ arg.rows[j][call.columns[k]] # NA
                       /\ \A h \in SameKey(i) :
                             arg.rows[h][call.columns[k]] # NA =>
                                arg.rows[h][call.columns[k]] <= arg.rows[j][call.columns[k]]
                       /\ HasRow(i, call.columns[k], arg.rows[j][call.columns[k]])

\* C22: with keep_max_value unset, map_counts_to_categorical gives exactly
\* one row for each key tuple of the input and each value column, with the
\* label of the column (its name when it has none) as Type and, as Count, the
\* value of the column in the last input row of that key tuple; no two rows
\* of the result have one key tuple and one Type
C22_OneRowPerKeyAndColumn ==
    (pc = "cat_done" /\ ~call.keep_max_value) =>
        /\ ~IsRaised(res)
        /\ \A g, h \in 1..Len(res.rows) :
              KeyEq(res.rows[g], res.rows[h], call.selection_base \o <<"Type">>) => g = h
        /\ \A g \in 1..Len(res.rows) :
              \E i \in 1..Len(arg.rows), k \in 1..Len(call.columns) :
                 /\ KeyEq(res.rows[g], arg.rows[i], call.selection_base)
                 /\ res.rows[g]["Type"] = TypeOf(call.columns[k])
        /\ \A i \in 1..Len(arg.rows) :
              \A k \in 1..Len(call.columns) :
                 (\A j \in SameKey(i) : j <= i) =>
                    HasRow(i, call.columns[k], arg.rows[i][call.columns[k]])

\* two rows of one key tuple with different counts, the smaller one last,
\* and a column with a label of its own
C22_Witness ==
    /\ pc = "cat_done"
    /\ ~call.keep_max_value
    /\ Len(call.columns) = 2
    /\ ~IsNone(call.label_mappings)
    /\ \E i, j \in 1..Len(arg.rows) :
          /\ i < j
          /\ SameKey(i) = {i, j}
          /\ arg.rows[i][NEW_CASES] = 2
          /\ arg.rows[j][NEW_CASES] = 1
          /\ HasRow(j, NEW_CASES, 1)
          /\ ~HasRow(i, NEW_CASES, 2)

----------------------------------------------------------------------------
(* pandasutils.convert_date_field_to_week *)

\* the year, month and day of a date yyyymmdd
YearOf(date) == date \div 10000
MonthOf(date) == (date \div 100) % 100
DayOf(date) == date % 100

\* the number of days from 1970-01-01 to the day d of month m of year y
\* (proleptic Gregorian calendar, the year counted from March)
DaysFromCivil(y, m, d) ==
    LET yy == IF m <= 2 THEN y - 1 ELSE y
        era == yy \div 400
        yoe == yy - era * 400
        doy == (153 * (IF m > 2 THEN m - 3 ELSE m + 9) + 2) \div 5 + d - 1
        doe == yoe * 365 + yoe \div 4 - yoe \div 100 + doy
    IN era * 146097 + doe - 719468

\* the day number of a date / the date of a day number
ToOrdinal(date) == DaysFromCivil(YearOf(date), MonthOf(date), DayOf(date))

FromOrdinal(days) ==
    LET z == days + 719468
        era == z \div 146097
        doe == z - era * 146097
        yoe == (doe - doe \div 1460 + doe \div 36524 - doe \div 146096) \div 365
        doy == doe - (365 * yoe + yoe \div 4 - yoe \div 100)
        mp == (5 * doy + 2) \div 153
        d == doy - (153 * mp + 2) \div 5 + 1
        m == IF mp < 10 THEN mp + 3 ELSE mp - 9
        y == yoe + era * 400 + (IF m <= 2 THEN 1 ELSE 0)
    IN y * 10000 + m * 100 + d

weekday_from_sunday(date) == (ToOrdinal(date) + 4) % 7

\* Series.dt.weekday: Monday is 0 and Sunday is 6 (1970-01-01 was a Thursday)
weekday(date) == (ToOrdinal(date) + 3) % 7

\* date - weekday * np.timedelta64(1, 'D'); NaT stays NaT
WeekStart(date) ==
    IF date = NA THEN NA ELSE FromOrdinal(ToOrdinal(date) - weekday(date))

Digits == <<"0", "1", "2", "3", "4", "5", "6", "7", "8", "9">>

\* a number written with two / four digits
TwoDigits(n) == Digits[((n \div 10) % 10) + 1] \o Digits[(n % 10) + 1]
FourDigits(n) == TwoDigits(n \div 100) \o TwoDigits(n % 100)

\* strftime %U: the week of the year with Sunday as the first day of the
\* week; the days before the first Sunday of the year are in week 0
WeekOfYearSunday(date) ==
    (ToOrdinal(date) - DaysFromCivil(YearOf(date), 1, 1)
        + 7 - ((weekday(date) + 1) % 7)) \div 7

\* Series.dt.strftime('%Y-%U') of one date; NaT gives a missing label
YearWeekLabel(date) ==
    IF date = NA THEN NA
    ELSE FourDigits(YearOf(date)) \o "-" \o TwoDigits(WeekOfYearSunday(date))

\* data_func of convert_date_field_to_week: the Week of every row
data_func(df, date_field, week_number) ==
    [i \in 1..Len(df.rows) |->
        IF week_number THEN YearWeekLabel(df.rows[i][date_field])
        ELSE WeekStart(df.rows[i][date_field])]

\* convert_date_field_to_week(df, date_field, week_number=week_number):
\* df.create_column('Week', data_func), which calls data_func
convert_date_field_to_week(df, date_field, week_number) ==
    create_column(df, "Week",
                  [callable |-> TRUE,
                   gives |-> [kind |-> "list", v |-> data_func(df, date_field, week_number)]],
                  TRUE)

----------------------------------------------------------------------------
(* Specification SpecWeek: convert_date_field_to_week *)

MaxWeekRows == 2

\* the first day and the number of days of the dates of the model: the two
\* weeks around 1 January 2021
FirstWeekDate == 20201228
WeekDays == 14

WeekDates ==
    {FromOrdinal(ToOrdinal(FirstWeekDate) + k) : k \in 0..(WeekDays - 1)}

WeekColumns == <<COUNTRY_REGION, DATE_RECORDED, NEW_CASES>>

WeekTables ==
    {DF(WeekColumns,
        [i \in 1..Len(ds) |->
            [c \in Range(WeekColumns) |->
                IF c = COUNTRY_REGION THEN "Ireland"
                ELSE IF c = DATE_RECORDED THEN ds[i] ELSE i]]) :
        ds \in SeqUpTo(WeekDates \cup {NA}, MaxWeekRows)}

InitWeek ==
    /\ pc = "week_idle"
    /\ arg \in WeekTables
    /\ call \in [date_field : {DATE_RECORDED}, week_number : BOOLEAN]
    /\ res = Empty
    /\ NoSources
    /\ LoadUnused
    /\ custom = None
    /\ n_calls = 0 /\ n_fetch = 0 /\ n_pre = 0
    /\ RegUnused

\* convert_date_field_to_week(arg, date_field, week_number=week_number): res
\* holds the frame after the call
ConvertDateFieldToWeek ==
    /\ pc = "week_idle"
    /\ res' = convert_date_field_to_week(arg, call.date_field, call.week_number)
    /\ pc' = "week_done"
    /\ UNCHANGED <<arg, call, custom, n_calls, n_fetch, n_pre, srcVars, loadVars, regVars>>

NextWeek == ConvertDateFieldToWeek

SpecWeek == InitWeek /\ [][NextWeek]_vars

----------------------------------------------------------------------------
(* Properties of the week bucketing *)

\* the days from the Monday of the week of a date to the date, counted from
\* the Monday 2021-01-04
DaysIntoWeek(date) == (ToOrdinal(date) - ToOrdinal(20210104) + 7000) % 7

\* C23: with week_number false every date d gets the Monday of its week: a
\* Monday, not after d and at most 6 days before it (2021-01-06 gets
\* 2021-01-04); it is written to the new column Week and the date column is
\* as it was
C23_WeekIsMondayOfDate ==
    (pc = "week_done" /\ ~call.week_number) =>
        /\ ~IsRaised(res.result)
        /\ res.df.columns = Append(arg.columns, "Week")
        /\ Len(res.df.rows) = Len(arg.rows)
        /\ \A i \in 1..Len(arg.rows) :
              /\ \A c \in Range(arg.columns) : res.df.rows[i][c] = arg.rows[i][c]
              /\ arg.rows[i][DATE_RECORDED] # NA =>
                    /\ res.df.rows[i]["Week"] # NA
                    /\ DaysIntoWeek(res.df.rows[i]["Week"]) = 0
                    /\ res.df.rows[i]["Week"] <= arg.rows[i][DATE_RECORDED]
                    /\ ToOrdinal(arg.rows[i][DATE_RECORDED])
                          - ToOrdinal(res.df.rows[i]["Week"]) \in 0..6
              /\ arg.rows[i][DATE_RECORDED] = 20210106 =>
                    res.df.rows[i]["Week"] = 20210104
              /\ arg.rows[i][DATE_RECORDED] = 20210103 =>
                    res.df.rows[i]["Week"] = 20201228

\* the Wednesday 2021-01-06 and a Sunday of the year before's last week
C23_Witness ==
    /\ pc = "week_done"
    /\ ~call.week_number
    /\ Len(arg.rows) = 2
    /\ arg.rows[1][DATE_RECORDED] = 20210106
    /\ res.df.rows[1]["Week"] = 20210104
    /\ arg.rows[2][DATE_RECORDED] = 20210103
    /\ res.df.rows[2]["Week"] = 20201228

\* the ISO-8601 week of a date: the year and the week of the year of the
\* Thursday of its Monday-to-Sunday week
IsoThursday(date) == FromOrdinal(ToOrdinal(date) - DaysIntoWeek(date) + 3)

IsoLabel(date) ==
    FourDigits(YearOf(IsoThursday(date))) \o "-"
       \o TwoDigits((ToOrdinal(IsoThursday(date))
                        - DaysFromCivil(YearOf(IsoThursday(date)), 1, 1)) \div 7 + 1)

\* two dates have one label exactly when they are in one Monday-to-Sunday
\* week
SameLabelSameWeek(i, j) ==
    (res.df.rows[i]["Week"] = res.df.rows[j]["Week"])
        <=> (ToOrdinal(arg.rows[i][DATE_RECORDED])
                - DaysIntoWeek(arg.rows[i][DATE_RECORDED])
             = ToOrdinal(arg.rows[j][DATE_RECORDED])
                - DaysIntoWeek(arg.rows[j][DATE_RECORDED]))

\* C24: with week_number true every date is labelled with the ISO year and
\* the ISO week number of its week, so that two dates have one label exactly
\* when they are in one Monday-to-Sunday week
C24_LabelIsIsoWeek ==
    (pc = "week_done" /\ call.week_number /\ ~IsRaised(res.result)) =>
        \A i, j \in 1..Len(arg.rows) :
            (arg.rows[i][DATE_RECORDED] # NA /\ arg.rows[j][DATE_RECORDED] # NA) =>
                /\ SameLabelSameWeek(i, j)
                /\ res.df.rows[i]["Week"] = IsoLabel(arg.rows[i][DATE_RECORDED])

----------------------------------------------------------------------------
(* Properties of the order of the phases of load *)

\* the place of a phase in the sequence of load
PhaseRank(phase) ==
    CASE phase = "load" -> 0
      [] phase = "retrieve" -> 1
      [] phase = "preprocess" -> 2
      [] phase = "merge" -> 3
      [] phase = "funcs" -> 4
      [] phase = "done" -> 5
      [] phase = "raised" -> 6

\* one step of load keeps the order of the phases
PhasesStep ==
    \* no phase is entered again once it was left
    /\ PhaseRank(pc') >= PhaseRank(pc)
    /\ PhaseRank(pc') <= PhaseRank(pc) + 1 \/ pc' = "raised"
    \* the merges start with the first dataset, on the preprocessed table
    /\ (pc = "preprocess" /\ pc' = "merge") => (loop' = 1 /\ merged' = final_df')
    \* the datasets are merged one at a time in the order of the list, each
    \* with the result of the one before as the left table
    /\ (pc = "merge" /\ pc' = "merge") =>
          /\ loop \in 1..Len(ADDITIONAL_DATASETS)
          /\ loop' = loop + 1
          /\ \E ok \in BOOLEAN :
                merged' = Merge(ADDITIONAL_DATASETS[loop], merged,
                                IF ok THEN from_csv(ADDITIONAL_DATASETS[loop].path_or_url)
                                ELSE Raised("URLError")).result
    \* the functions start after the last merge, with the first function
    /\ (pc = "merge" /\ pc' = "funcs") =>
          (loop = Len(ADDITIONAL_DATASETS) + 1 /\ loop' = 1)
    /\ pc' = "funcs" => pc \in {"merge", "funcs"}
    \* the functions run one at a time in the order of the list
    /\ (pc = "funcs" /\ pc' = "funcs") =>
          /\ loop \in 1..Len(ADDITIONAL_PROCESSORS)
          /\ loop' = loop + 1
          /\ final_df' = Call(ADDITIONAL_PROCESSORS[loop], final_df)
          /\ merged' = merged
    \* the table is written last, after the last function
    /\ pc' = "done" =>
          /\ pc = "funcs"
          /\ loop = Len(ADDITIONAL_PROCESSORS) + 1
          /\ output_file' = final_df'
    /\ (~IsNone(output_file') /\ output_file' # output_file) => pc' = "done"

\* C25: load runs its phases in sequence and never goes back: the datasets
\* are merged one at a time in the order of registration, each on the result
\* of the one before, the processing functions run only after the last
\* merge, in the order of registration, and the table is written last
C25_PhasesInSequence == [][PhasesStep]_vars

\* a load that merged both datasets, ran both functions and wrote the table
C25_Witness ==
    /\ pc = "done"
    /\ Len(ADDITIONAL_DATASETS) = 2
    /\ Len(ADDITIONAL_PROCESSORS) = 2
    /\ loop = 3
    /\ ~IsNone(output_file)
    /\ output_file = returned

----------------------------------------------------------------------------
(* Properties of the order of the steps of CustomDataset.merge *)

\* what self.read() gives in a merge that fetches the source: the source
\* itself, or what the pre-processor makes of the source
ReadOfSource(self) ==
    IF self.pre_processor = "None" THEN from_csv(self.path_or_url)
    ELSE Call(self.pre_processor, from_csv(self.path_or_url))

\* one call of custom.merge(arg) has its steps in order
MergeStep ==
    (n_calls' = n_calls + 1 /\ call'.op = "merge") =>
        \* the source is fetched only when no frame is cached, and a cached
        \* frame is joined as it is
        /\ n_fetch' \in {n_fetch, n_fetch + 1}
        /\ n_fetch' > n_fetch => IsNone(custom.df)
        /\ ~IsNone(custom.df) =>
              (n_pre' = n_pre /\ call'.right = custom.df /\ custom' = custom)
        \* the pre-processor runs after the fetch, on the source alone
        /\ n_pre' > n_pre => n_fetch' > n_fetch
        /\ (n_fetch' > n_fetch /\ ~IsRaised(ReadOfSource(custom))) =>
              (call'.right = ReadOfSource(custom) /\ custom'.df = call'.right)
        \* the join is of the left table and what read returned
        /\ ~IsRaised(call'.result) =>
              call'.joined = Join(custom', arg, call'.right)
        \* the post-processor runs once, on the joined table, and merge
        \* returns its result; with no post-processor the joined table
        /\ (~IsNone(call'.joined) /\ ~IsRaised(call'.joined)) =>
              call'.result = (IF custom.post_processor = "None" THEN call'.joined
                              ELSE Call(custom.post_processor, call'.joined))

\* C26: in one call of merge the steps run in the order fetch (only when no
\* frame is cached), pre-processor, join, post-processor: the pre-processor
\* sees the source alone, the post-processor is applied once to the joined
\* table, and merge returns its result (the joined table when there is none)
C26_MergeStepsInOrder == [][MergeStep]_vars

\* a second merge on the cached frame of a dataset with both processors: one
\* fetch, one run of the pre-processor, and a result the post-processor made
\* of the joined table
C26_Witness ==
    /\ pc = "ds_called"
    /\ call.op = "merge"
    /\ custom.pre_processor # "None"
    /\ custom.post_processor # "None"
    /\ n_calls = 2 /\ n_fetch = 1 /\ n_pre = 1
    /\ ~IsRaised(call.result)
    /\ call.result # call.joined
    /\ call.result = Call(custom.post_processor, call.joined)

----------------------------------------------------------------------------
(* Specification SpecReload: load(output) called again in one process *)

MaxLoads == 2

\* load() is called again after an earlier call returned or raised: the
\* locals of the earlier call are gone, the module lists
\* ADDITIONAL_PROCESSORS and ADDITIONAL_DATASETS, the dataset objects in
\* them and the output file are as the earlier call left them.  Each call of
\* load adds two processing functions, which counts the calls.
LoadAgain ==
    /\ pc \in {"done", "raised"}
    /\ Len(ADDITIONAL_PROCESSORS) < 2 * MaxLoads
    /\ pc' = "load"
    /\ final_df' = None
    /\ merged' = None
    /\ loop' = 0
    /\ returned' = None
    /\ failure' = "none"
    /\ UNCHANGED <<output_file, ADDITIONAL_PROCESSORS, ADDITIONAL_DATASETS,
                   subVars, srcVars, dsVars, regVars>>

NextReload == Next \/ LoadAgain

SpecReload == Init /\ [][NextReload]_vars

----------------------------------------------------------------------------
(* Properties of repeated loads *)

\* how often a source is in the list of datasets / a function in the chain
DatasetTimes(path_or_url) ==
    Cardinality({k \in 1..Len(ADDITIONAL_DATASETS) :
                    ADDITIONAL_DATASETS[k].path_or_url = path_or_url})

ProcessorTimes(func) ==
    Cardinality({k \in 1..Len(ADDITIONAL_PROCESSORS) :
                    ADDITIONAL_PROCESSORS[k] = func})

\* C27: load() can be repeated in one process: when the fold over the
\* datasets starts, in the first and in every later load, the list of
\* datasets and the chain of functions hold each built-in entry exactly once
C27_BuiltinsRegisteredOnce ==
    (pc = "merge" /\ loop = 1) =>
        /\ DatasetTimes(VACCINATIONS_URL) = 1
        /\ DatasetTimes(POPULATIONS_URL) = 1
        /\ ProcessorTimes("drop_rep_ireland") = 1
        /\ ProcessorTimes("calculate_population_metrics") = 1

----------------------------------------------------------------------------
(* Properties of the output file of load *)

\* C28: load(output) removes a file at the output path before anything is
\* fetched and writes the file only when the whole pipeline has succeeded:
\* from the first fetch to the last processing function there is no file at
\* the path, and after a load that failed there is none
C28_NoFileUnlessLoaded ==
    /\ pc \in {"retrieve", "preprocess", "merge", "funcs", "raised"} =>
          IsNone(output_file)
    /\ (pc = "done" /\ ~IsNone(output_file)) => output_file = returned
    /\ pc = "raised" => IsNone(returned)

\* a load that failed at the first dataset, after the primary sources were
\* fetched and derived: there is no file
C28_Witness ==
    /\ pc = "raised"
    /\ failure = VACCINATIONS_URL
    /\ ~IsNone(final_df)
    /\ IsNone(ADDITIONAL_DATASETS[2].df)
    /\ IsNone(output_file)

----------------------------------------------------------------------------
(* Properties of the daily vaccinations *)

\* C29: after the vaccinations dataset is merged, the daily vaccinations of
\* a row are null whenever its total doses are null or the total doses of
\* the row before it in its country are null (or there is no row before
\* it): the dates the outer join left without total doses and the first
\* date after them have null, not the difference to the last known total
\* and not 0; every other row has the clamped difference to the row before
C29_NullDailyAcrossGaps ==
    (pc = "merge" /\ loop = 2) =>
        \A i \in 1..Len(merged.rows) :
            LET p == PrevInGroup(merged.rows, i, COUNTRY_REGION)
                v == merged.rows[i][TOTAL_VACCINATIONS]
            IN IF v = NA \/ p = 0 THEN merged.rows[i][DAILY_VACCINATIONS] = NA
               ELSE IF merged.rows[p][TOTAL_VACCINATIONS] = NA
               THEN merged.rows[i][DAILY_VACCINATIONS] = NA
               ELSE /\ merged.rows[i][DAILY_VACCINATIONS] # NA
                    /\ merged.rows[i][DAILY_VACCINATIONS]
                          = Clip(v - merged.rows[p][TOTAL_VACCINATIONS])

\* a country with total doses on one date, none on the next and some on the
\* one after: the date of the gap and the date after it have no daily
\* vaccinations
C29_Witness ==
    /\ pc = "merge"
    /\ loop = 2
    /\ \E i, k \in 1..Len(merged.rows) :
          LET p == PrevInGroup(merged.rows, i, COUNTRY_REGION)
          IN /\ p # 0
             /\ PrevInGroup(merged.rows, k, COUNTRY_REGION) = i
             /\ merged.rows[p][TOTAL_VACCINATIONS] # NA
             /\ merged.rows[i][TOTAL_VACCINATIONS] = NA
             /\ merged.rows[k][TOTAL_VACCINATIONS] # NA
             /\ merged.rows[k][TOTAL_VACCINATIONS] > merged.rows[p][TOTAL_VACCINATIONS]
             /\ merged.rows[i][DAILY_VACCINATIONS] = NA
             /\ merged.rows[k][DAILY_VACCINATIONS] = NA

----------------------------------------------------------------------------
(* Properties of the populations merge *)

\* the countries of a table
CountriesOf(df) == {df.rows[i][COUNTRY_REGION] : i \in 1..Len(df.rows)}

\* the population source has an entry of this year for the country, under
\* the name the pre-processor gives it
HasPopulationEntry(country) ==
    \E j \in 1..Len(populations_csv.rows) :
        /\ populations_csv.rows[j]["Time"] = ThisYear
        /\ populations_csv.rows[j]["PopTotal"] # NA
        /\ country = (IF populations_csv.rows[j]["Location"]
                            = "United States of America (and dependencies)"
                      THEN "US" ELSE populations_csv.rows[j]["Location"])

\* C30: after the populations dataset is merged every row of the table has
\* a population, and the rows of a primary country without an entry in the
\* population source are not in the final table: its countries are the
\* primary countries with a population entry ('Republic of Ireland', which
\* the processing chain drops by design, aside)
C30_EveryRowHasPopulation ==
    /\ (pc = "merge" /\ loop = 3) =>
          \A i \in 1..Len(merged.rows) : merged.rows[i][POPULATION] # NA
    /\ pc = "done" =>
          CountriesOf(returned)
             = {c \in CountriesOf(confirmed_csv) :
                   HasPopulationEntry(c) /\ c # "Republic of Ireland"}

\* the primary source has the US and Ireland, the population source only
\* Ireland: the final table has the rows of Ireland and none of the US
C30_Witness ==
    /\ pc = "done"
    /\ CountriesOf(confirmed_csv) = {"US", "Ireland"}
    /\ ~HasPopulationEntry("US")
    /\ Len(returned.rows) > 0
    /\ CountriesOf(returned) = {"Ireland"}

====
